---- MODULE Spec2Model ----
(***************************************************************************)
(* Whatsapp-Lite: the websocket hub (connection registry), the per-client  *)
(* read and write pumps, the message router and the direct-message store.  *)
(*                                                                         *)
(* Goroutines of the program:                                              *)
(*   - Hub.Run, one goroutine, receiving on the unbuffered channels        *)
(*     hub.register and hub.unregister;                                    *)
(*   - Handler.ServeWS, one per connection, which sends the new client on  *)
(*     hub.register and only then starts the two pumps;                    *)
(*   - Client.readPump and Client.writePump, per connection.               *)
(* Hub.mu is a sync.RWMutex: a writer waits for the readers to leave, a    *)
(* reader waits while a writer holds or waits for the lock, and the lock   *)
(* is not reentrant.                                                       *)
(***************************************************************************)
EXTENDS Integers, Sequences, FiniteSets, TLC

(* ------------------------------ bounds -------------------------------- *)
\* frames a connection's peer sends before it goes silent
MaxFrames == 2
\* capacity of Client.send (256 in NewClient), scaled down
SendCap == 1
\* server message identifiers uuid.New() can return
MaxMsgs == 2
\* rows direct_messages holds when history is read, and the values their
\* created_at takes
MaxRows == 2
\* the largest limit a history request carries
MaxLimit == 2

(* ------------------- strings, as sequences of bytes ------------------- *)
Hyphen == 45
UUIDLen == 36

\* the 36-byte string cccccccc-cccc-cccc-cccc-cccccccccccc
UUIDStr(ch) == [i \in 1..UUIDLen |-> IF i \in {9, 14, 19, 24} THEN Hyphen ELSE ch]

IsHex(ch) == ch \in (48..57) \cup (65..70) \cup (97..102)
ToLower(ch) == IF ch \in 65..90 THEN ch + 32 ELSE ch

\* Go's < on strings: bytewise lexicographic order
StrLess(a, b) ==
    \E i \in 1..(Len(b)) :
        /\ \A j \in 1..(i - 1) : j <= Len(a) /\ a[j] = b[j]
        /\ \/ i > Len(a)
           \/ i <= Len(a) /\ a[i] < b[i]

InvalidUUID == << >>

\* "urn:uuid:"
UrnPrefix == <<117, 114, 110, 58, 117, 117, 105, 100, 58>>

\* the place among the 32 hex digits of the i-th byte of the 36-byte form
HexIndex(i) == i - Cardinality({j \in {9, 14, 19, 24} : j < i})

\* uuid.Parse's switch on len(s): the 36 bytes it goes on to decode, or the
\* empty string when the length is none it knows. The 36-byte form is taken
\* as it is, "urn:uuid:" (in either case) is cut off the 45-byte form, the
\* first byte is cut off the 38-byte form {...}, whose last byte is not
\* looked at, and the 32-byte form is hex digits only.
UUIDBody(s) ==
    CASE Len(s) = UUIDLen -> s
      [] Len(s) = UUIDLen + 9 ->
           IF \A i \in 1..9 : ToLower(s[i]) = UrnPrefix[i]
           THEN SubSeq(s, 10, UUIDLen + 9) ELSE << >>
      [] Len(s) = UUIDLen + 2 -> SubSeq(s, 2, UUIDLen + 1)
      [] Len(s) = 32 ->
           [i \in 1..UUIDLen |-> IF i \in {9, 14, 19, 24} THEN Hyphen
                                 ELSE s[HexIndex(i)]]
      [] OTHER -> << >>

\* uuid.Parse, then UUID.String(): hex digits in either case are accepted
\* and the canonical spelling is lower case
ParseUUID(s) ==
    LET b == UUIDBody(s) IN
    IF /\ Len(b) = UUIDLen
       /\ \A i \in 1..UUIDLen :
            IF i \in {9, 14, 19, 24} THEN b[i] = Hyphen ELSE IsHex(b[i])
    THEN [i \in 1..UUIDLen |-> ToLower(b[i])]
    ELSE InvalidUUID

(* --------------------------- the population --------------------------- *)
\* The state names an identity or a spelling by a short name; Bytes gives
\* the string the program handles. "A", "B", "C" are canonical (lower-case)
\* UUID strings, "B^" is the upper-case spelling of "B", "{B}" the spelling
\* of "B" in braces, "0" the nil UUID and "zz" a string that is no UUID.
Names == {"A", "B", "C", "B^", "{B}", "0", "zz"}
Bytes(n) == CASE n = "A"  -> UUIDStr(97)
              [] n = "B"  -> UUIDStr(98)
              [] n = "C"  -> UUIDStr(99)
              [] n = "B^" -> UUIDStr(66)
              [] n = "{B}" -> <<123>> \o UUIDStr(98) \o <<125>>
              [] n = "0"  -> UUIDStr(48)
              [] OTHER    -> <<122, 122>>
NameOf(b) == IF \E n \in Names : Bytes(n) = b
             THEN CHOOSE n \in Names : Bytes(n) = b
             ELSE ""

\* uuid.Parse followed by UUID.String(), on names; "" when Parse fails
Parse(n) == NameOf(ParseUUID(Bytes(n)))

Users == {"A", "B", "C"}
NilUUID == "0"

Conn == {"c1", "c2", "c3"}
Hub == "hub"
Proc == Conn \cup {Hub}
NoClient == "none"

\* Client.userID, the identity the authentication layer hands to NewClient
UserOf(c) == CASE c = "c1" -> "A"
               [] c = "c2" -> "A"
               [] OTHER    -> "B"

(* ------------------------------ envelopes ----------------------------- *)
\* a conversation id is held as the pair of the two spellings it joins; a
\* third component is the byte between them when that is no hyphen
NoConv == <<"", "">>

\* models.WebSocketMessage with its Data flattened; unused fields are empty
Envelope(t, st, cid, sid, conv, uid, code, text) ==
    [type |-> t, status |-> st, client_message_id |-> cid,
     server_message_id |-> sid, conversation_id |-> conv, user_id |-> uid,
     code |-> code, message |-> text]

\* models.MessageAckData
Ack(cid, sid, st) == Envelope("message_ack", st, cid, sid, NoConv, "", 0, "")
\* Client.sendError: models.ErrorData; status carries original_message_type
ErrorEnv(code, text, orig) == Envelope("error", orig, 0, 0, NoConv, "", code, text)
\* models.DirectMessageData, the copy pushed to the recipient
Forward(sid, conv, sender) == Envelope("direct_message", "", 0, sid, conv, sender, 0, "")
\* models.PresenceData
PresenceUpdate(uid, st) == Envelope("presence_update", st, 0, 0, NoConv, uid, 0, "")
\* models.TypingIndicatorData
Typing(uid, st) == Envelope("typing_indicator", st, 0, 0, NoConv, uid, 0, "")
\* models.ReadReceiptData
ReadReceipt(uid, conv, last) == Envelope("read_receipt", "", 0, last, conv, uid, 0, "")

(* ------------------------- frames a peer sends ------------------------ *)
\* recipient_id as a peer spells it
RecipientInputs == {"A", "B^", "zz"}

Frame(t, r, miss, st) == [type |-> t, rcpt |-> r, missing |-> miss, status |-> st]

Frames ==
    {Frame("direct_message", r, "none", "") : r \in RecipientInputs}
    \cup {Frame("direct_message", "A", "message_id", "")}
    \cup {Frame("presence", "", "none", st) : st \in {"away", "busy"}}
    \cup {Frame("typing_indicator", "B^", "none", "typing")}
    \cup {Frame("read_receipt", "A", "none", "")}
    \cup {Frame("group_message", "", "none", ""), Frame("malformed", "", "none", "")}

MsgIds == 1..MaxMsgs

(* ------------------------------ sessions ------------------------------ *)
\* refresh tokens token.GenerateRandomString can return before the model
\* stops issuing them
MaxTokens == 3
Tokens == 1..MaxTokens

\* the requests to /auth/refresh that are served at the same time
Callers == {"r1", "r2"}

\* the locals of AuthService.Refresh
NoRefresh == [pc |-> "idle", token |-> 0, user |-> "", err |-> "", newToken |-> 0]

\* a row of sessions; expired tells whether time.Now() is after expires_at
Session(t, u) == [refresh_token |-> t, user_id |-> u, expired |-> FALSE]

(* ------------------------- history requests --------------------------- *)
\* ids and created_at of the rows of direct_messages; Postgres orders uuid
\* values bytewise, here the order of the integers
RowIds == 1..MaxRows
Times == 1..MaxRows

\* the "before" query parameter: empty, a string uuid.Parse rejects, or the
\* id of a message
NoCursor == 0
BadCursor == 0 - 1
Cursors == {NoCursor, BadCursor} \cup RowIds

Limits == 1..MaxLimit

\* models.Message: a row as a page shows it
Message(r) == [id |-> r.id, sender_id |-> r.sender_id, timestamp |-> r.created_at,
               delivered |-> r.delivered, read |-> r.read]

\* what the handlers answer: 0 while nothing was answered, 200 with
\* models.MessageListResponse or models.ConversationListResponse, 500 with
\* models.ErrorResponse
NoResponse == [code |-> 0, messages |-> << >>, has_more |-> FALSE,
               next_cursor |-> NoCursor, conversations |-> << >>]
ErrorResponse == [code |-> 500, messages |-> << >>, has_more |-> FALSE,
                  next_cursor |-> NoCursor, conversations |-> << >>]

\* the locals of Handler.GetMessages and ConversationService.GetMessages;
\* err is the error the service has returned to the handler
NoRequest == [pc |-> "idle", user |-> "", conv |-> NoConv, before |-> NoCursor,
              limit |-> 0, messages |-> << >>, hasMore |-> FALSE,
              nextCursor |-> NoCursor, markErr |-> FALSE, err |-> "",
              resp |-> NoResponse]

NoPaging == [chain |-> FALSE, more |-> FALSE, cursor |-> NoCursor, user |-> "",
             conv |-> NoConv, limit |-> 0, acc |-> << >>]

(* -------------------------------- state ------------------------------- *)
VARIABLES
    wsPc,          \* ServeWS of each connection: idle, register, started
    pc,            \* position of Hub.Run and of each readPump
    cur,           \* locals of the operation a goroutine is executing
    muWriter,      \* Hub.mu: none, waiting (Lock called), held
    muReaders,     \* Hub.mu: goroutines holding a read lock
    clients,       \* Hub.clients
    userClients,   \* Hub.userClients
    send,          \* Client.send: the buffered channel's content
    sendClosed,    \* Client.send has been closed
    log,           \* every envelope ever enqueued on Client.send (history)
    writePc,       \* writePump of each connection: off, run, done
    frames,        \* frames read so far from each connection
    store,         \* rows of direct_messages
    usedIds,       \* identifiers uuid.New() has returned
    clock,         \* time.Now()
    repoAvailable, \* Hub.conversationRepo != nil
    connCloses,    \* calls of conn.Close() per connection (history)
    removeCalls,   \* calls of unregisterClient per connection (history)
    crashed,       \* a goroutine panicked: the process is gone
    rest,          \* the history request (GET messages) being served, and
                   \* the last answer given
    seen,          \* ids of the rows a page has shown to their recipient
                   \* (history)
    paging,        \* the ids a client paging through a conversation has
                   \* been given so far (history)
    sessions,      \* rows of sessions
    refreshing,    \* the Refresh call of each caller
    issuedTokens,  \* refresh tokens generated so far
    renewed        \* pairs <<old, new>>: a Refresh presenting old returned
                   \* new (history)

vars == <<wsPc, pc, cur, muWriter, muReaders, clients, userClients, send,
          sendClosed, log, writePc, frames, store, usedIds, clock,
          repoAvailable, connCloses, removeCalls, crashed, rest, seen, paging,
          sessions, refreshing, issuedTokens, renewed>>

\* the state of the websocket side but the store, and of the history side
wsVars == <<wsPc, pc, cur, muWriter, muReaders, clients, userClients, send,
            sendClosed, log, writePc, frames, usedIds, clock, repoAvailable,
            connCloses, removeCalls, crashed>>
authVars == <<sessions, refreshing, issuedTokens, renewed>>
\* the state of the HTTP side: the history requests and the sessions
historyVars == <<rest, seen, paging, authVars>>

NoEnv == Envelope("", "", 0, 0, NoConv, "", 0, "")
NoCtx == [op |-> "", cid |-> 0, sid |-> 0, rcptStr |-> "", rcptID |-> "",
          conv |-> NoConv, env |-> NoEnv, target |-> NoClient, user |-> "",
          todo |-> {}]

Init ==
    /\ wsPc = [c \in Conn |-> "idle"]
    /\ pc = [p \in Proc |-> IF p = Hub THEN "select" ELSE "off"]
    /\ cur = [p \in Proc |-> NoCtx]
    /\ muWriter = "none"
    /\ muReaders = {}
    /\ clients = {}
    /\ userClients = [u \in Users |-> NoClient]
    /\ send = [c \in Conn |-> << >>]
    /\ sendClosed = [c \in Conn |-> FALSE]
    /\ log = [c \in Conn |-> << >>]
    /\ writePc = [c \in Conn |-> "off"]
    /\ frames = [c \in Conn |-> 0]
    /\ store = {}
    /\ usedIds = {}
    /\ clock = 0
    /\ repoAvailable \in BOOLEAN
    /\ connCloses = [c \in Conn |-> 0]
    /\ removeCalls = [c \in Conn |-> 0]
    /\ crashed = FALSE
    /\ rest = NoRequest
    /\ seen = {}
    /\ paging = NoPaging
    /\ sessions = {}
    /\ refreshing = [r \in Callers |-> NoRefresh]
    /\ issuedTokens = {}
    /\ renewed = {}

(* ---------------------- Handler.ServeWS and Hub.Run -------------------- *)
\* ServeWS up to "h.hub.register <- client": the client is built and the
\* goroutine waits for Hub.Run to receive it
Connect(c) ==
    /\ ~crashed
    /\ UNCHANGED historyVars
    /\ wsPc[c] = "idle"
    /\ wsPc' = [wsPc EXCEPT ![c] = "register"]
    /\ UNCHANGED <<pc, cur, muWriter, muReaders, clients, userClients, send,
                   sendClosed, log, writePc, frames, store, usedIds, clock,
                   repoAvailable, connCloses, removeCalls, crashed>>

\* goroutines blocked in a send on hub.register or hub.unregister
Senders == {c \in Conn : wsPc[c] = "register" \/ pc[c] = "unregister"}

\* Hub.Run's select: one receive. A register lets ServeWS go on to start the
\* two pumps; an unregister lets readPump's deferred function go on to
\* conn.Close() and end.
HubSelect ==
    /\ ~crashed
    /\ UNCHANGED historyVars
    /\ pc[Hub] = "select"
    /\ \E c \in Senders :
         IF wsPc[c] = "register"
         THEN /\ wsPc' = [wsPc EXCEPT ![c] = "started"]
              /\ pc' = [pc EXCEPT ![Hub] = "lock", ![c] = "read"]
              /\ writePc' = [writePc EXCEPT ![c] = "run"]
              /\ cur' = [cur EXCEPT ![Hub] = [NoCtx EXCEPT !.op = "register", !.target = c]]
              /\ UNCHANGED <<connCloses, removeCalls>>
         ELSE /\ pc' = [pc EXCEPT ![Hub] = "lock", ![c] = "done"]
              /\ cur' = [cur EXCEPT ![Hub] = [NoCtx EXCEPT !.op = "unregister", !.target = c]]
              /\ connCloses' = [connCloses EXCEPT ![c] = @ + 1]
              /\ removeCalls' = [removeCalls EXCEPT ![c] = @ + 1]
              /\ UNCHANGED <<wsPc, writePc>>
    /\ UNCHANGED <<muWriter, muReaders, clients, userClients, send, sendClosed,
                   log, frames, store, usedIds, clock, repoAvailable, crashed>>

\* h.mu.Lock(), first half: the writer announces itself; from now on no new
\* reader gets in
HubLock ==
    /\ ~crashed
    /\ UNCHANGED historyVars
    /\ pc[Hub] = "lock"
    /\ muWriter = "none"
    /\ muWriter' = "waiting"
    /\ pc' = [pc EXCEPT ![Hub] = "locking"]
    /\ UNCHANGED <<wsPc, cur, muReaders, clients, userClients, send, sendClosed,
                   log, writePc, frames, store, usedIds, clock, repoAvailable,
                   connCloses, removeCalls, crashed>>

\* a Lock() that does not wait for the readers to leave
HubLockAcquireIgnoringReaders ==
    /\ ~crashed
    /\ UNCHANGED historyVars
    /\ pc[Hub] = "locking"
    /\ muWriter' = "held"
    /\ pc' = [pc EXCEPT ![Hub] = "body"]
    /\ UNCHANGED <<wsPc, cur, muReaders, clients, userClients, send, sendClosed,
                   log, writePc, frames, store, usedIds, clock, repoAvailable,
                   connCloses, removeCalls, crashed>>

\* h.mu.Lock(), second half: the readers have left
HubLockAcquire ==
    /\ ~crashed
    /\ UNCHANGED historyVars
    /\ pc[Hub] = "locking"
    /\ muReaders = {}
    /\ muWriter' = "held"
    /\ pc' = [pc EXCEPT ![Hub] = "body"]
    /\ UNCHANGED <<wsPc, cur, muReaders, clients, userClients, send, sendClosed,
                   log, writePc, frames, store, usedIds, clock, repoAvailable,
                   connCloses, removeCalls, crashed>>

\* registerClient and unregisterClient between Lock() and the call of
\* broadcastPresenceUpdate. unregisterClient on a client that is not in
\* h.clients returns at once, releasing the lock. close() of a closed
\* channel panics.
HubBody ==
    /\ ~crashed
    /\ UNCHANGED historyVars
    /\ pc[Hub] = "body"
    /\ LET c == cur[Hub].target IN
       IF cur[Hub].op = "register"
       THEN /\ clients' = clients \cup {c}
            /\ userClients' = [userClients EXCEPT ![UserOf(c)] = c]
            /\ pc' = [pc EXCEPT ![Hub] = "bcast_rlock"]
            /\ cur' = [cur EXCEPT ![Hub].user = UserOf(c),
                                  ![Hub].env = PresenceUpdate(UserOf(c), "online")]
            /\ UNCHANGED <<muWriter, sendClosed, crashed>>
       ELSE IF c \in clients
       THEN /\ clients' = clients \ {c}
            /\ userClients' = [userClients EXCEPT ![UserOf(c)] = NoClient]
            /\ sendClosed' = [sendClosed EXCEPT ![c] = TRUE]
            /\ crashed' = sendClosed[c]
            /\ pc' = [pc EXCEPT ![Hub] = "bcast_rlock"]
            /\ cur' = [cur EXCEPT ![Hub].user = UserOf(c),
                                  ![Hub].env = PresenceUpdate(UserOf(c), "offline")]
            /\ UNCHANGED muWriter
       ELSE /\ muWriter' = "none"
            /\ pc' = [pc EXCEPT ![Hub] = "select"]
            /\ cur' = [cur EXCEPT ![Hub] = NoCtx]
            /\ UNCHANGED <<clients, userClients, sendClosed, crashed>>
    /\ UNCHANGED <<wsPc, muReaders, send, log, writePc, frames, store, usedIds,
                   clock, repoAvailable, connCloses, removeCalls>>

(* ------------------- operations shared by goroutines ------------------- *)
\* a readPump that ends after it sent an error
AfterSendErrorEnds(p) ==
    CASE pc[p] = "dm_ack_sent"      -> "dm_save"
      [] pc[p] = "dm_ack_delivered" -> "dm_is_connected"
      [] pc[p] = "bcast_send"       -> "bcast_loop"
      [] pc[p] = "send_error"       -> "unregister"
      [] OTHER                      -> "read"

\* where a goroutine goes on after "c.send <- messageBytes" returned
AfterSend(p) ==
    CASE pc[p] = "dm_ack_sent"      -> "dm_save"
      [] pc[p] = "dm_ack_delivered" -> "dm_is_connected"
      [] pc[p] = "bcast_send"       -> "bcast_loop"
      [] OTHER                      -> "read"

SendSites == {"dm_ack_sent", "dm_ack_delivered", "send_error", "stu_send", "bcast_send"}

\* Client.SendMessage: a blocking send on the buffered channel Client.send.
\* It waits while the buffer is full and panics when the channel is closed.
\* SendToUser's deferred RUnlock runs right after its SendMessage.
SendMessage(p) ==
    /\ ~crashed
    /\ UNCHANGED historyVars
    /\ pc[p] \in SendSites
    /\ LET t == cur[p].target IN
       IF sendClosed[t]
       THEN /\ crashed' = TRUE
            /\ UNCHANGED <<pc, cur, muReaders, send, log>>
       ELSE /\ Len(send[t]) < SendCap
            /\ send' = [send EXCEPT ![t] = Append(@, cur[p].env)]
            /\ log' = [log EXCEPT ![t] = Append(@, cur[p].env)]
            /\ pc' = [pc EXCEPT ![p] = AfterSend(p)]
            /\ muReaders' = IF pc[p] = "stu_send" THEN muReaders \ {p} ELSE muReaders
            /\ cur' = [cur EXCEPT ![p] =
                         IF AfterSend(p) = "read" THEN NoCtx
                         ELSE IF pc[p] = "dm_ack_sent" THEN @
                         ELSE IF pc[p] = "dm_ack_delivered"
                         THEN [cur[p] EXCEPT !.env = Forward(cur[p].sid, cur[p].conv, UserOf(p))]
                         ELSE @]
            /\ UNCHANGED crashed
    /\ UNCHANGED <<wsPc, muWriter, clients, userClients, sendClosed, writePc,
                   frames, store, usedIds, clock, repoAvailable, connCloses,
                   removeCalls>>

\* h.userClients[userID.String()]
Lookup(u) == IF u \in DOMAIN userClients THEN userClients[u] ELSE NoClient

\* Hub.GetConnectedUserCount: len(h.userClients)
GetConnectedUserCount == Cardinality({u \in Users : userClients[u] # NoClient})

\* Hub.IsUserConnected, as a function of the registry
IsConnected(u) == Lookup(u) # NoClient

\* Hub.IsUserConnected, as handleDirectMessage calls it: the read lock is
\* taken and released within the step
IsUserConnected(c) ==
    /\ ~crashed
    /\ UNCHANGED historyVars
    /\ pc[c] = "dm_is_connected"
    /\ muWriter = "none"
    /\ IF Lookup(cur[c].rcptID) # NoClient
       THEN /\ pc' = [pc EXCEPT ![c] = "stu_rlock"]
            /\ cur' = [cur EXCEPT ![c].user = cur[c].rcptID]
       ELSE /\ pc' = [pc EXCEPT ![c] = "read"]
            /\ cur' = [cur EXCEPT ![c] = NoCtx]
    /\ UNCHANGED <<wsPc, muWriter, muReaders, clients, userClients, send,
                   sendClosed, log, writePc, frames, store, usedIds, clock,
                   repoAvailable, connCloses, removeCalls, crashed>>

\* Hub.SendToUser up to its SendMessage: RLock and the lookup; an unknown
\* user returns false and releases the lock
SendToUser(c) ==
    /\ ~crashed
    /\ UNCHANGED historyVars
    /\ pc[c] = "stu_rlock"
    /\ muWriter = "none"
    /\ IF Lookup(cur[c].user) # NoClient
       THEN /\ muReaders' = muReaders \cup {c}
            /\ pc' = [pc EXCEPT ![c] = "stu_send"]
            /\ cur' = [cur EXCEPT ![c].target = Lookup(cur[c].user)]
       ELSE /\ pc' = [pc EXCEPT ![c] = "read"]
            /\ cur' = [cur EXCEPT ![c] = NoCtx]
            /\ UNCHANGED muReaders
    /\ UNCHANGED <<wsPc, muWriter, clients, userClients, send, sendClosed, log,
                   writePc, frames, store, usedIds, clock, repoAvailable,
                   connCloses, removeCalls, crashed>>

\* the clients broadcastPresenceUpdate sends to
BroadcastTargets(uid) == {c \in clients : UserOf(c) # uid}

\* Hub.broadcastPresenceUpdate: h.mu.RLock() and the start of the range
BroadcastRLock(p) ==
    /\ ~crashed
    /\ UNCHANGED historyVars
    /\ pc[p] = "bcast_rlock"
    /\ muWriter = "none"
    /\ muReaders' = muReaders \cup {p}
    /\ pc' = [pc EXCEPT ![p] = "bcast_loop"]
    /\ cur' = [cur EXCEPT ![p].todo = BroadcastTargets(cur[p].user)]
    /\ UNCHANGED <<wsPc, muWriter, clients, userClients, send, sendClosed, log,
                   writePc, frames, store, usedIds, clock, repoAvailable,
                   connCloses, removeCalls, crashed>>

\* one turn of the range over h.clients (in any order), or its end: the
\* deferred RUnlock, and in the hub the caller's deferred Unlock
BroadcastNext(p) ==
    /\ ~crashed
    /\ UNCHANGED historyVars
    /\ pc[p] = "bcast_loop"
    /\ IF cur[p].todo = {}
       THEN /\ muReaders' = muReaders \ {p}
            /\ muWriter' = IF p = Hub THEN "none" ELSE muWriter
            /\ pc' = [pc EXCEPT ![p] = IF p = Hub THEN "select" ELSE "read"]
            /\ cur' = [cur EXCEPT ![p] = NoCtx]
       ELSE /\ \E t \in cur[p].todo :
                 cur' = [cur EXCEPT ![p].target = t, ![p].todo = @ \ {t}]
            /\ pc' = [pc EXCEPT ![p] = "bcast_send"]
            /\ UNCHANGED <<muReaders, muWriter>>
    /\ UNCHANGED <<wsPc, clients, userClients, send, sendClosed, log, writePc,
                   frames, store, usedIds, clock, repoAvailable, connCloses,
                   removeCalls, crashed>>

(* --------------------------- the message router ------------------------ *)
\* handleDirectMessage: "Create conversation ID (smaller UUID first)". The
\* sender's side is client.userID.String(), the recipient's side is the
\* recipient_id string as the peer spelled it.
ConversationID(sender, recipientIDStr) ==
    IF StrLess(Bytes(sender), Bytes(recipientIDStr))
    THEN <<sender, recipientIDStr>>
    ELSE <<recipientIDStr, sender>>

\* the string a conversation id is on the wire
ConversationBytes(conv) ==
    Bytes(conv[1]) \o <<IF Len(conv) > 2 THEN conv[3] ELSE Hyphen>> \o Bytes(conv[2])

\* what a goroutine does next, and with which locals
Goto(where, ctx) == [pc |-> where, ctx |-> ctx]
SendError(c, code, text, orig) ==
    Goto("send_error", [NoCtx EXCEPT !.env = ErrorEnv(code, text, orig), !.target = c])

\* checks that let an envelope without message_id pass
DirectMessageErrorNoIdCheck(f) ==
    CASE f.missing = "recipient_id"       -> "Missing recipient_id"
      [] f.missing = "content"            -> "Missing message content"
      [] Parse(f.rcpt) = ""  -> "Invalid recipient ID"
      [] OTHER                            -> ""

\* handleDirectMessage's checks of the envelope; "" when it is accepted
DirectMessageError(f) ==
    CASE f.missing = "recipient_id"       -> "Missing recipient_id"
      [] f.missing = "content"            -> "Missing message content"
      [] f.missing = "message_id"         -> "Missing client message_id"
      [] Parse(f.rcpt) = ""  -> "Invalid recipient ID"
      [] OTHER                            -> ""

\* handleDirectMessage persisting at once, without the "sent" acknowledgement
HandleDirectMessageNoSentAck(c, f, cid, sid) ==
    IF DirectMessageError(f) # ""
    THEN SendError(c, 1000, DirectMessageError(f), f.type)
    ELSE Goto("dm_save",
              [NoCtx EXCEPT !.cid = cid, !.sid = sid, !.rcptStr = f.rcpt,
                            !.rcptID = Parse(f.rcpt),
                            !.conv = ConversationID(UserOf(c), f.rcpt),
                            !.target = c])

\* a handler that acknowledges on a connection of the recipient's user
HandleDirectMessageAckToRecipient(c, f, cid, sid) ==
    IF DirectMessageError(f) = "Invalid recipient ID"
    THEN SendError(c, 1002, DirectMessageError(f), f.type)
    ELSE IF DirectMessageError(f) # ""
    THEN SendError(c, 1000, DirectMessageError(f), f.type)
    ELSE Goto("dm_ack_sent",
              [NoCtx EXCEPT !.cid = cid, !.sid = sid, !.rcptStr = f.rcpt,
                            !.rcptID = Parse(f.rcpt),
                            !.conv = ConversationID(UserOf(c), f.rcpt),
                            !.env = Ack(cid, sid, "sent"),
                            !.target = IF \E t \in Conn : UserOf(t) = Parse(f.rcpt)
                                       THEN CHOOSE t \in Conn : UserOf(t) = Parse(f.rcpt)
                                       ELSE c])

\* handleDirectMessage from its start to the first SendMessage: the checks,
\* uuid.New(), the conversation id and the "sent" acknowledgement
HandleDirectMessage(c, f, cid, sid) ==
    IF DirectMessageError(f) = "Invalid recipient ID"
    THEN SendError(c, 1002, DirectMessageError(f), f.type)
    ELSE IF DirectMessageError(f) # ""
    THEN SendError(c, 1000, DirectMessageError(f), f.type)
    ELSE Goto("dm_ack_sent",
              [NoCtx EXCEPT !.cid = cid, !.sid = sid, !.rcptStr = f.rcpt,
                            !.rcptID = Parse(f.rcpt),
                            !.conv = ConversationID(UserOf(c), f.rcpt),
                            !.env = Ack(cid, sid, "sent"), !.target = c])

\* handleTypingIndicator up to Hub.SendToUser
HandleTypingIndicator(c, f) ==
    IF f.missing = "recipient_id" THEN SendError(c, 1000, "Missing recipient_id", f.type)
    ELSE IF f.missing = "status" THEN SendError(c, 1000, "Missing status", f.type)
    ELSE IF Parse(f.rcpt) = ""
    THEN SendError(c, 1002, "Invalid recipient ID", f.type)
    ELSE Goto("stu_rlock", [NoCtx EXCEPT !.user = Parse(f.rcpt),
                                         !.env = Typing(UserOf(c), f.status)])

\* handleReadReceipt up to Hub.SendToUser: the other user is the placeholder
\* 00000000-0000-0000-0000-000000000000
HandleReadReceipt(c, f) ==
    IF f.missing = "conversation_id" THEN SendError(c, 1000, "Missing conversation_id", f.type)
    ELSE IF f.missing = "last_read_message_id"
    THEN SendError(c, 1000, "Missing last_read_message_id", f.type)
    ELSE Goto("stu_rlock",
              [NoCtx EXCEPT !.user = Parse(NilUUID),
                            !.env = ReadReceipt(UserOf(c),
                                                ConversationID(UserOf(c), f.rcpt), 1)])

\* handlePresenceUpdate up to Hub.broadcastPresenceUpdate
HandlePresenceUpdate(c, f) ==
    IF f.missing = "status" THEN SendError(c, 1000, "Missing status", f.type)
    ELSE IF f.status \notin {"online", "away", "offline"}
    THEN SendError(c, 1000, "Invalid status value", f.type)
    ELSE Goto("bcast_rlock", [NoCtx EXCEPT !.user = UserOf(c),
                                           !.env = PresenceUpdate(UserOf(c), f.status)])

\* readPump's json.Unmarshal and Router.RouteMessage
RouteMessage(c, f, cid, sid) ==
    CASE f.type = "malformed"        -> SendError(c, 1000, "Invalid message format", "unknown")
      [] f.type = "direct_message"   -> HandleDirectMessage(c, f, cid, sid)
      [] f.type = "typing_indicator" -> HandleTypingIndicator(c, f)
      [] f.type = "read_receipt"     -> HandleReadReceipt(c, f)
      [] f.type = "presence"         -> HandlePresenceUpdate(c, f)
      [] OTHER                       -> SendError(c, 1001, "Invalid message type", f.type)

(* -------------------------------- readPump ----------------------------- *)
\* one frame read from the connection and routed up to the handler's first
\* blocking call. The k-th frame of a connection carries message_id k.
ReadMessage(c) ==
    /\ ~crashed
    /\ UNCHANGED historyVars
    /\ pc[c] = "read"
    /\ connCloses[c] = 0
    /\ frames[c] < MaxFrames
    /\ \E f \in Frames :
         \E sid \in IF f.type = "direct_message" /\ DirectMessageError(f) = ""
                    THEN MsgIds \ usedIds ELSE {0} :
           LET r == RouteMessage(c, f, frames[c] + 1, sid) IN
           /\ pc' = [pc EXCEPT ![c] = r.pc]
           /\ cur' = [cur EXCEPT ![c] = r.ctx]
           /\ usedIds' = IF sid = 0 THEN usedIds ELSE usedIds \cup {sid}
    /\ frames' = [frames EXCEPT ![c] = @ + 1]
    /\ UNCHANGED <<wsPc, muWriter, muReaders, clients, userClients, send,
                   sendClosed, log, writePc, store, clock, repoAvailable,
                   connCloses, removeCalls, crashed>>

\* conn.ReadMessage() returns an error (the peer went away, the frame was
\* over maxMessageSize, the read deadline passed, the connection was
\* closed): the loop ends and the deferred function sends on hub.unregister
ReadFail(c) ==
    /\ ~crashed
    /\ UNCHANGED historyVars
    /\ pc[c] = "read"
    /\ pc' = [pc EXCEPT ![c] = "unregister"]
    /\ UNCHANGED <<wsPc, cur, muWriter, muReaders, clients, userClients, send,
                   sendClosed, log, writePc, frames, store, usedIds, clock,
                   repoAvailable, connCloses, removeCalls, crashed>>

\* a row that is stored as already delivered
RowDelivered(id, sender, recipient, t) ==
    [id |-> id, sender_id |-> sender, recipient_id |-> recipient,
     delivered |-> TRUE, read |-> FALSE, created_at |-> t]

\* models.DirectMessage as handleDirectMessage builds it
Row(id, sender, recipient, t) ==
    [id |-> id, sender_id |-> sender, recipient_id |-> recipient,
     delivered |-> FALSE, read |-> FALSE, created_at |-> t]

\* SaveMessage's error ignored: the handler acknowledges "delivered" whether
\* or not the row was inserted
SaveMessageIgnoringError(c) ==
    /\ ~crashed
    /\ UNCHANGED historyVars
    /\ pc[c] = "dm_save"
    /\ \E saved \in BOOLEAN :
         store' = IF saved /\ repoAvailable
                  THEN store \cup {Row(cur[c].sid, UserOf(c), cur[c].rcptID, clock + 1)}
                  ELSE store
    /\ clock' = clock + 1
    /\ pc' = [pc EXCEPT ![c] = "dm_ack_delivered"]
    /\ cur' = [cur EXCEPT ![c].env = Ack(cur[c].cid, cur[c].sid, "delivered")]
    /\ UNCHANGED <<wsPc, muWriter, muReaders, clients, userClients, send,
                   sendClosed, log, writePc, frames, usedIds, repoAvailable,
                   connCloses, removeCalls, crashed>>

\* a handler that stores the row under the client's message_id
SaveMessageStoringClientId(c) ==
    /\ ~crashed
    /\ UNCHANGED historyVars
    /\ pc[c] = "dm_save"
    /\ IF ~repoAvailable
       THEN /\ pc' = [pc EXCEPT ![c] = "send_error"]
            /\ cur' = [cur EXCEPT ![c] =
                         SendError(c, 1009, "Server error: repository unavailable",
                                   "direct_message").ctx]
            /\ UNCHANGED <<store, clock>>
       ELSE \E saved \in BOOLEAN, t \in {clock + 1} :
            /\ clock' = t
            /\ IF saved
               THEN /\ store' = store \cup {Row(cur[c].cid, UserOf(c), cur[c].rcptID, t)}
                    /\ pc' = [pc EXCEPT ![c] = "dm_ack_delivered"]
                    /\ cur' = [cur EXCEPT ![c].env = Ack(cur[c].cid, cur[c].sid, "delivered")]
               ELSE /\ pc' = [pc EXCEPT ![c] = "send_error"]
                    /\ cur' = [cur EXCEPT ![c] =
                                 SendError(c, 1009, "Failed to save message",
                                           "direct_message").ctx]
                    /\ UNCHANGED store
    /\ UNCHANGED <<wsPc, muWriter, muReaders, clients, userClients, send,
                   sendClosed, log, writePc, frames, usedIds, repoAvailable,
                   connCloses, removeCalls, crashed>>

\* handleDirectMessage from "now := time.Now()" to the "delivered"
\* acknowledgement: the repository may be missing, and the INSERT of
\* PostgresRepository.SaveMessage may fail
SaveMessage(c) ==
    /\ ~crashed
    /\ UNCHANGED historyVars
    /\ pc[c] = "dm_save"
    /\ IF ~repoAvailable
       THEN /\ pc' = [pc EXCEPT ![c] = "send_error"]
            /\ cur' = [cur EXCEPT ![c] =
                         SendError(c, 1009, "Server error: repository unavailable",
                                   "direct_message").ctx]
            /\ UNCHANGED <<store, clock>>
       ELSE \E saved \in BOOLEAN, t \in {clock + 1} :
            /\ clock' = t
            /\ IF saved
               THEN /\ store' = store \cup {Row(cur[c].sid, UserOf(c), cur[c].rcptID, t)}
                    /\ pc' = [pc EXCEPT ![c] = "dm_ack_delivered"]
                    /\ cur' = [cur EXCEPT ![c].env = Ack(cur[c].cid, cur[c].sid, "delivered")]
               ELSE /\ pc' = [pc EXCEPT ![c] = "send_error"]
                    /\ cur' = [cur EXCEPT ![c] =
                                 SendError(c, 1009, "Failed to save message",
                                           "direct_message").ctx]
                    /\ UNCHANGED store
    /\ UNCHANGED <<wsPc, muWriter, muReaders, clients, userClients, send,
                   sendClosed, log, writePc, frames, usedIds, repoAvailable,
                   connCloses, removeCalls, crashed>>

(* ------------------------------- writePump ----------------------------- *)
\* a writePump that closes c.send itself when a write fails
WriteMessagesClosingQueue(c) ==
    /\ ~crashed
    /\ UNCHANGED historyVars
    /\ writePc[c] = "run"
    /\ IF send[c] = << >>
       THEN /\ sendClosed[c]
            /\ writePc' = [writePc EXCEPT ![c] = "done"]
            /\ connCloses' = [connCloses EXCEPT ![c] = @ + 1]
            /\ UNCHANGED <<send, sendClosed>>
       ELSE \E outcome \in {"written", "next_writer_failed", "close_failed"} :
            /\ send' = [send EXCEPT ![c] =
                          IF outcome = "next_writer_failed" THEN Tail(@) ELSE << >>]
            /\ writePc' = [writePc EXCEPT ![c] = IF outcome = "written" THEN "run" ELSE "done"]
            /\ connCloses' = [connCloses EXCEPT ![c] =
                                IF outcome = "written" THEN @ ELSE @ + 1]
            /\ sendClosed' = [sendClosed EXCEPT ![c] = outcome # "written"]
    /\ UNCHANGED <<wsPc, pc, cur, muWriter, muReaders, clients, userClients,
                   log, frames, store, usedIds, clock, repoAvailable,
                   removeCalls, crashed>>

\* one turn of writePump's select on c.send. A closed and empty channel ends
\* the pump. Otherwise one message is received, NextWriter may fail, the
\* messages queued meanwhile are received too, and w.Close() may fail. A
\* failure ends the pump; the deferred function closes the connection.
WriteMessages(c) ==
    /\ ~crashed
    /\ UNCHANGED historyVars
    /\ writePc[c] = "run"
    /\ IF send[c] = << >>
       THEN /\ sendClosed[c]
            /\ writePc' = [writePc EXCEPT ![c] = "done"]
            /\ connCloses' = [connCloses EXCEPT ![c] = @ + 1]
            /\ UNCHANGED send
       ELSE \E outcome \in {"written", "next_writer_failed", "close_failed"} :
            /\ send' = [send EXCEPT ![c] =
                          IF outcome = "next_writer_failed" THEN Tail(@) ELSE << >>]
            /\ writePc' = [writePc EXCEPT ![c] = IF outcome = "written" THEN "run" ELSE "done"]
            /\ connCloses' = [connCloses EXCEPT ![c] =
                                IF outcome = "written" THEN @ ELSE @ + 1]
    /\ UNCHANGED <<wsPc, pc, cur, muWriter, muReaders, clients, userClients,
                   sendClosed, log, frames, store, usedIds, clock, repoAvailable,
                   removeCalls, crashed>>

\* the ticker fires and the ping cannot be written
PingFail(c) ==
    /\ ~crashed
    /\ UNCHANGED historyVars
    /\ writePc[c] = "run"
    /\ writePc' = [writePc EXCEPT ![c] = "done"]
    /\ connCloses' = [connCloses EXCEPT ![c] = @ + 1]
    /\ UNCHANGED <<wsPc, pc, cur, muWriter, muReaders, clients, userClients, send,
                   sendClosed, log, frames, store, usedIds, clock, repoAvailable,
                   removeCalls, crashed>>

(* ------------------- the store and the history requests ---------------- *)
\* sender and recipient of the rows the store is given
Pairs == {<<"A", "B">>, <<"B", "A">>, <<"C", "B">>}

Underscore == 95

\* conversation ids history requests carry: the pair in canonical spelling,
\* the id handleDirectMessage builds for A writing to "B^", a string that is
\* too short, the pair joined by an underscore, and a string of 75 bytes
\* whose second part is in braces
ConvInputs == {<<"A", "B">>, <<"B^", "A">>, <<"zz", "A">>,
               <<"A", "B", Underscore>>, <<"A", "{B}">>}

Min(a, b) == IF a < b THEN a ELSE b

\* PostgresRepository.GetOrCreateConversation: the two canonical strings,
\* the smaller first, joined by a hyphen
GetOrCreateConversation(userID1, userID2) ==
    IF StrLess(Bytes(userID1), Bytes(userID2))
    THEN Bytes(userID1) \o <<Hyphen>> \o Bytes(userID2)
    ELSE Bytes(userID2) \o <<Hyphen>> \o Bytes(userID1)

\* splitConversationID: the first 36 bytes and the bytes after the 37th, both
\* through uuid.Parse
SplitConversationID(conversationID) ==
    LET s == ConversationBytes(conversationID)
        bad(e) == [err |-> e, first |-> "", second |-> ""] IN
    IF Len(s) < 2 * UUIDLen + 1
    THEN bad("invalid conversation ID format: too short")
    ELSE LET firstUuid == NameOf(ParseUUID(SubSeq(s, 1, UUIDLen)))
             secondUuid == NameOf(ParseUUID(SubSeq(s, UUIDLen + 2, Len(s)))) IN
         IF firstUuid = "" THEN bad("invalid first UUID in conversation ID")
         ELSE IF secondUuid = "" THEN bad("invalid second UUID in conversation ID")
         ELSE [err |-> "", first |-> firstUuid, second |-> secondUuid]

\* splitConversationID on the conversation ids requests carry
SplitTable == [conv \in ConvInputs |-> SplitConversationID(conv)]

\* the rows GetMessages' WHERE clause selects without a cursor
ConversationRows(rows, user1ID, user2ID) ==
    {r \in rows : \/ r.sender_id = user1ID /\ r.recipient_id = user2ID
                  \/ r.sender_id = user2ID /\ r.recipient_id = user1ID}

\* GetMessages' WHERE clause: with a cursor, "AND dm.id < $3"
Eligible(rows, user1ID, user2ID, before) ==
    IF before = NoCursor
    THEN ConversationRows(rows, user1ID, user2ID)
    ELSE {r \in ConversationRows(rows, user1ID, user2ID) : r.id < before}

\* ORDER BY dm.created_at DESC: the orders the query may give the rows in
\* (rows of equal created_at come in any order)
Orders(S) ==
    {o \in [1..Cardinality(S) -> S] :
        /\ \A i, j \in 1..Cardinality(S) : i # j => o[i] # o[j]
        /\ \A i, j \in 1..Cardinality(S) : i < j => o[i].created_at >= o[j].created_at}

\* GetMessages reading limit rows instead of limit + 1
GetMessagesResultNoExtraRow(order, limit) ==
    [messages |-> [i \in 1..Min(limit, Len(order)) |-> Message(order[i])],
     hasMore |-> FALSE, nextCursor |-> NoCursor]

\* GetMessages from LIMIT to its return: limit + 1 rows are read, hasMore
\* tells whether the extra row came, nextCursor is messages[limit].ID, the id
\* of the extra row, and the extra row is cut off
GetMessagesResult(order, limit) ==
    LET fetched == SubSeq(order, 1, Min(limit + 1, Len(order)))
        more == Len(fetched) > limit IN
    [messages |-> [i \in 1..Min(limit, Len(fetched)) |-> Message(fetched[i])],
     hasMore |-> more,
     nextCursor |-> IF more THEN fetched[limit + 1].id ELSE NoCursor]

\* an UPDATE that sets read on the rows the user sent
MarkedRowsOfSender(rows, otherUserID, userID) ==
    {IF r.sender_id = userID /\ r.recipient_id = otherUserID /\ ~r.read
     THEN [r EXCEPT !.read = TRUE] ELSE r : r \in rows}

\* an UPDATE that flips read instead of setting it
MarkedRowsToggling(rows, otherUserID, userID) ==
    {IF r.sender_id = otherUserID /\ r.recipient_id = userID
     THEN [r EXCEPT !.read = ~r.read] ELSE r : r \in rows}

\* a statement that removes the rows it should mark
MarkedRowsDeleting(rows, otherUserID, userID) ==
    {r \in rows : ~(r.sender_id = otherUserID /\ r.recipient_id = userID /\ ~r.read)}

\* MarkMessagesAsRead's UPDATE: SET read = TRUE WHERE sender_id = $1 AND
\* recipient_id = $2 AND read = FALSE
MarkedRows(rows, otherUserID, userID) ==
    {IF r.sender_id = otherUserID /\ r.recipient_id = userID /\ ~r.read
     THEN [r EXCEPT !.read = TRUE] ELSE r : r \in rows}

\* PostgresRepository.MarkMessagesAsRead as a function of the table;
\* lastReadMessageID is not used by it
MarkRead(rows, conversationID, userID, lastReadMessageID) ==
    LET sp == SplitTable[conversationID] IN
    IF sp.err # "" THEN [err |-> sp.err, rows |-> rows]
    ELSE IF userID = sp.first
    THEN [err |-> "", rows |-> MarkedRows(rows, sp.second, userID)]
    ELSE IF userID = sp.second
    THEN [err |-> "", rows |-> MarkedRows(rows, sp.first, userID)]
    ELSE [err |-> "user is not part of this conversation", rows |-> rows]

\* a service that fails the request when marking failed
MessageListResponseFailing(q, markErr) ==
    IF markErr THEN ErrorResponse
    ELSE [code |-> 200, messages |-> q.messages, has_more |-> q.hasMore,
          next_cursor |-> q.nextCursor, conversations |-> << >>]

\* ConversationService.GetMessages' return value and Handler.GetMessages'
\* sendJSON: the error of MarkMessagesAsRead is logged and dropped
MessageListResponse(q, markErr) ==
    [code |-> 200, messages |-> q.messages, has_more |-> q.hasMore,
     next_cursor |-> q.nextCursor, conversations |-> << >>]

\* GetConversations' first CTE: the rows the user sent or was sent, and the
\* other user of such a row
RowsOfUser(rows, userID) ==
    {r \in rows : r.sender_id = userID \/ r.recipient_id = userID}
OtherUserID(r, userID) ==
    IF r.sender_id = userID THEN r.recipient_id ELSE r.sender_id

\* the rows ROW_NUMBER() OVER (PARTITION BY other_user_id ORDER BY created_at
\* DESC) may number 1 in the partition of otherUserID
FirstOfPartition(rows, userID, otherUserID) ==
    LET part == {r \in RowsOfUser(rows, userID) : OtherUserID(r, userID) = otherUserID} IN
    {r \in part : \A r2 \in part : r.created_at >= r2.created_at}

\* GetConversations' second CTE: COUNT(*) WHERE recipient_id = $1 AND read =
\* FALSE GROUP BY sender_id, and COALESCE(uc.unread_count, 0)
UnreadCount(rows, userID, otherUserID) ==
    Cardinality({r \in rows : /\ r.sender_id = otherUserID
                              /\ r.recipient_id = userID
                              /\ ~r.read})

\* LEAST(other, $1)::text || '-' || GREATEST(other, $1)::text
LeastGreatest(otherUserID, userID) ==
    IF StrLess(Bytes(userID), Bytes(otherUserID))
    THEN <<userID, otherUserID>>
    ELSE <<otherUserID, userID>>

\* a summary whose unread count counts the rows the user sent
ConversationCountingSent(rows, userID, r) ==
    LET other == OtherUserID(r, userID) IN
    [conversation_id |-> LeastGreatest(other, userID),
     user_id |-> other,
     message_id |-> r.id,
     sender_id |-> other,
     timestamp |-> r.created_at,
     delivered |-> IF r.sender_id = userID THEN TRUE ELSE r.delivered,
     read |-> IF r.sender_id = userID THEN TRUE ELSE r.read,
     unread_count |-> UnreadCount(rows, other, userID)]

\* models.Conversation as GetConversations scans and fills it for the row
\* numbered 1: the flags are TRUE for a row the user sent, and
\* LastMessage.SenderID is set to the other user whoever sent the row
Conversation(rows, userID, r) ==
    LET other == OtherUserID(r, userID) IN
    [conversation_id |-> LeastGreatest(other, userID),
     user_id |-> other,
     message_id |-> r.id,
     sender_id |-> other,
     timestamp |-> r.created_at,
     delivered |-> IF r.sender_id = userID THEN TRUE ELSE r.delivered,
     read |-> IF r.sender_id = userID THEN TRUE ELSE r.read,
     unread_count |-> UnreadCount(rows, userID, other)]

\* PostgresRepository.GetConversations as a function of the table: the
\* lists it may return. No row of the user gives the empty list; else one
\* row per other user that has a row in users, WHERE row_num = 1 ORDER BY
\* created_at DESC (rows of equal created_at in any order)
RepositoryGetConversations(rows, userID) ==
    LET others == {OtherUserID(r, userID) : r \in RowsOfUser(rows, userID)} \cap Users
        picks == {pk \in [others -> rows] :
                    \A o \in others : pk[o] \in FirstOfPartition(rows, userID, o)} IN
    UNION {LET S == {Conversation(rows, userID, pk[o]) : o \in others} IN
           {l \in [1..Cardinality(S) -> S] :
               /\ \A i, j \in 1..Cardinality(S) : i # j => l[i] # l[j]
               /\ \A i, j \in 1..Cardinality(S) :
                    i < j => l[i].timestamp >= l[j].timestamp}
           : pk \in picks}

\* models.ConversationListResponse
ConversationListResponse(conversations) ==
    [code |-> 200, messages |-> << >>, has_more |-> FALSE,
     next_cursor |-> NoCursor, conversations |-> conversations]

\* the service's error for a user that is not in the conversation
ErrUnauthorized == "user not authorized to access this conversation"

\* the request ends with an error answer
Failed == [NoRequest EXCEPT !.pc = "answer", !.resp = ErrorResponse]

\* the request continues the paging the last answer belongs to
Continues(u, conv, before, limit) ==
    /\ paging.chain
    /\ paging.more
    /\ before # NoCursor
    /\ before = paging.cursor
    /\ u = paging.user /\ conv = paging.conv /\ limit = paging.limit

\* PostgresRepository.SaveMessage: the INSERT a router goroutine makes. The
\* id comes from uuid.New() and created_at from the handler's time.Now(),
\* taken before the INSERT, so that rows need not arrive in time order.
RepositorySaveMessage(sender, recipient, id, t) ==
    /\ ~crashed
    /\ repoAvailable
    /\ \A r \in store : r.id # id
    /\ store' = store \cup {Row(id, sender, recipient, t)}
    /\ paging' = NoPaging
    /\ UNCHANGED <<rest, seen>>
    /\ UNCHANGED wsVars
    /\ UNCHANGED authVars

\* a service that does not ask whether the user is in the conversation
GetMessagesNoParticipantCheck(u, conv, before, limit) ==
    /\ ~crashed
    /\ rest.pc = "idle"
    /\ LET sp == SplitTable[conv] IN
       IF sp.err # "" \/ before = BadCursor
       THEN /\ rest' = [Failed EXCEPT !.user = u, !.conv = conv, !.err =
                          IF sp.err # "" THEN sp.err
                          ELSE IF u \notin {sp.first, sp.second} THEN ErrUnauthorized
                          ELSE "invalid before cursor"]
            /\ paging' = NoPaging
       ELSE \E queryOk \in BOOLEAN :
            \E order \in Orders(Eligible(store, sp.first, sp.second, before)) :
              IF ~queryOk
              THEN /\ rest' = [Failed EXCEPT !.user = u, !.conv = conv,
                                             !.err = "query failed"]
                   /\ paging' = NoPaging
              ELSE LET q == GetMessagesResult(order, limit) IN
                   /\ rest' = [NoRequest EXCEPT
                                 !.pc = "mark", !.user = u, !.conv = conv,
                                 !.before = before, !.limit = limit,
                                 !.messages = q.messages, !.hasMore = q.hasMore,
                                 !.nextCursor = q.nextCursor]
                   /\ paging' =
                        IF before = NoCursor
                        THEN [NoPaging EXCEPT !.chain = TRUE, !.more = TRUE,
                                              !.user = u, !.conv = conv,
                                              !.limit = limit]
                        ELSE IF Continues(u, conv, before, limit) THEN paging
                        ELSE NoPaging
    /\ UNCHANGED <<store, seen>>
    /\ UNCHANGED wsVars
    /\ UNCHANGED authVars

\* Handler.GetMessages and ConversationService.GetMessages up to the return
\* of PostgresRepository.GetMessages: IsUserInConversation, the cursor, the
\* query (which may fail) and the cut to limit rows
GetMessages(u, conv, before, limit) ==
    /\ ~crashed
    /\ rest.pc = "idle"
    /\ LET sp == SplitTable[conv] IN
       IF sp.err # "" \/ u \notin {sp.first, sp.second} \/ before = BadCursor
       THEN /\ rest' = [Failed EXCEPT !.user = u, !.conv = conv, !.err =
                          IF sp.err # "" THEN sp.err
                          ELSE IF u \notin {sp.first, sp.second} THEN ErrUnauthorized
                          ELSE "invalid before cursor"]
            /\ paging' = NoPaging
       ELSE \E queryOk \in BOOLEAN :
            \E order \in Orders(Eligible(store, sp.first, sp.second, before)) :
              IF ~queryOk
              THEN /\ rest' = [Failed EXCEPT !.user = u, !.conv = conv,
                                             !.err = "query failed"]
                   /\ paging' = NoPaging
              ELSE LET q == GetMessagesResult(order, limit) IN
                   /\ rest' = [NoRequest EXCEPT
                                 !.pc = "mark", !.user = u, !.conv = conv,
                                 !.before = before, !.limit = limit,
                                 !.messages = q.messages, !.hasMore = q.hasMore,
                                 !.nextCursor = q.nextCursor]
                   /\ paging' =
                        IF before = NoCursor
                        THEN [NoPaging EXCEPT !.chain = TRUE, !.more = TRUE,
                                              !.user = u, !.conv = conv,
                                              !.limit = limit]
                        ELSE IF Continues(u, conv, before, limit) THEN paging
                        ELSE NoPaging
    /\ UNCHANGED <<store, seen>>
    /\ UNCHANGED wsVars
    /\ UNCHANGED authVars

\* ConversationService.GetMessages from "if len(messages) > 0" to its
\* return: MarkMessagesAsRead with messages[0].ID, whose UPDATE may fail,
\* and the response
MarkMessagesAsRead ==
    /\ ~crashed
    /\ rest.pc = "mark"
    /\ \E execOk \in BOOLEAN :
         LET marked == IF Len(rest.messages) > 0
                       THEN MarkRead(store, rest.conv, rest.user, rest.messages[1].id)
                       ELSE [err |-> "", rows |-> store]
             failed == Len(rest.messages) > 0 /\ (~execOk \/ marked.err # "")
             resp == MessageListResponse(rest, failed) IN
         /\ store' = IF failed THEN store ELSE marked.rows
         /\ rest' = [rest EXCEPT !.pc = "answer", !.markErr = failed, !.resp = resp]
         /\ seen' = IF resp.code = 200
                    THEN seen \cup {rest.messages[i].id : i \in
                                     {j \in 1..Len(rest.messages) :
                                        rest.messages[j].sender_id # rest.user}}
                    ELSE seen
         /\ paging' = IF resp.code = 200 /\ paging.chain
                      THEN [paging EXCEPT
                              !.acc = @ \o [i \in 1..Len(resp.messages) |-> resp.messages[i].id],
                              !.more = resp.has_more,
                              !.cursor = resp.next_cursor]
                      ELSE NoPaging
    /\ UNCHANGED wsVars
    /\ UNCHANGED authVars

\* Handler.GetConversations and ConversationService.GetConversations up to
\* sendJSON: the two queries of PostgresRepository.GetConversations, either
\* of which may fail
GetConversations(u) ==
    /\ ~crashed
    /\ rest.pc = "idle"
    /\ \E queryOk \in BOOLEAN :
         IF ~queryOk
         THEN rest' = [Failed EXCEPT !.user = u, !.err = "query failed"]
         ELSE \E l \in RepositoryGetConversations(store, u) :
                rest' = [NoRequest EXCEPT !.pc = "answer", !.user = u,
                                          !.resp = ConversationListResponse(l)]
    /\ paging' = NoPaging
    /\ UNCHANGED <<store, seen>>
    /\ UNCHANGED wsVars
    /\ UNCHANGED authVars

\* sendJSON of either handler: the answer goes out and the handler returns
SendJSON ==
    /\ ~crashed
    /\ rest.pc = "answer"
    /\ rest' = NoRequest
    /\ UNCHANGED <<store, seen, paging>>
    /\ UNCHANGED wsVars
    /\ UNCHANGED authVars

(* ------------------------------- sessions ------------------------------ *)
ErrInvalidToken == "invalid token"
ErrTokenExpired == "token expired"

\* tokens not yet generated, less those the calls under way will need
SpareTokens ==
    Cardinality(Tokens \ issuedTokens)
    - Cardinality({r \in Callers : refreshing[r].pc \in {"delete", "create"}})

\* AuthService.Login from createRefreshToken on: a random token and the
\* INSERT of CreateSession, which may fail
Login(u) ==
    /\ SpareTokens > 0
    /\ \E t \in Tokens \ issuedTokens : \E created \in BOOLEAN :
         /\ issuedTokens' = issuedTokens \cup {t}
         /\ sessions' = IF created THEN sessions \cup {Session(t, u)} ELSE sessions
    /\ UNCHANGED <<refreshing, renewed>>
    /\ UNCHANGED <<store, rest, seen, paging>>
    /\ UNCHANGED wsVars

\* AuthService.Logout from DeleteUserSessions on: the DELETE of all sessions
\* of the user, which may fail
Logout(u) ==
    /\ \E deleted \in BOOLEAN :
         sessions' = IF deleted THEN {s \in sessions : s.user_id # u} ELSE sessions
    /\ UNCHANGED <<refreshing, issuedTokens, renewed>>
    /\ UNCHANGED <<store, rest, seen, paging>>
    /\ UNCHANGED wsVars

\* time passes expires_at of a session
Expire(s) ==
    /\ s \in sessions
    /\ ~s.expired
    /\ sessions' = (sessions \ {s}) \cup {[s EXCEPT !.expired = TRUE]}
    /\ UNCHANGED <<refreshing, issuedTokens, renewed>>
    /\ UNCHANGED <<store, rest, seen, paging>>
    /\ UNCHANGED wsVars

\* AuthService.Refresh up to the expiry check: GetSessionByRefreshToken
\* with the token the request presents
RefreshFind(r, t) ==
    /\ refreshing[r].pc = "idle"
    /\ SpareTokens > 0
    /\ IF \A s \in sessions : s.refresh_token # t
       THEN refreshing' = [refreshing EXCEPT ![r] =
                            [NoRefresh EXCEPT !.pc = "done", !.token = t,
                                              !.err = ErrInvalidToken]]
       ELSE \E s \in {x \in sessions : x.refresh_token = t} :
            refreshing' = [refreshing EXCEPT ![r] =
                             IF s.expired
                             THEN [NoRefresh EXCEPT !.pc = "done", !.token = t,
                                                    !.err = ErrTokenExpired]
                             ELSE [NoRefresh EXCEPT !.pc = "delete", !.token = t,
                                                    !.user = s.user_id]]
    /\ UNCHANGED <<sessions, issuedTokens, renewed>>
    /\ UNCHANGED <<store, rest, seen, paging>>
    /\ UNCHANGED wsVars

\* AuthService.Refresh from GetUserByID to DeleteSession: the user may not
\* be found and the access token may not be made, which end the call; the
\* DELETE may fail, which is logged, and the call goes on
RefreshDelete(r) ==
    /\ refreshing[r].pc = "delete"
    /\ \E prepared \in BOOLEAN, deleted \in BOOLEAN :
         IF ~prepared
         THEN /\ refreshing' = [refreshing EXCEPT ![r].pc = "done",
                                                  ![r].err = "failed"]
              /\ UNCHANGED sessions
         ELSE /\ sessions' = IF deleted
                             THEN {s \in sessions : s.refresh_token # refreshing[r].token}
                             ELSE sessions
              /\ refreshing' = [refreshing EXCEPT ![r].pc = "create"]
    /\ UNCHANGED <<issuedTokens, renewed>>
    /\ UNCHANGED <<store, rest, seen, paging>>
    /\ UNCHANGED wsVars

\* AuthService.Refresh from createRefreshToken to its return: a random token
\* and the INSERT of CreateSession, which may fail
RefreshCreate(r) ==
    /\ refreshing[r].pc = "create"
    /\ \E t \in Tokens \ issuedTokens : \E created \in BOOLEAN :
         /\ issuedTokens' = issuedTokens \cup {t}
         /\ IF created
            THEN /\ sessions' = sessions \cup {Session(t, refreshing[r].user)}
                 /\ renewed' = renewed \cup {<<refreshing[r].token, t>>}
                 /\ refreshing' = [refreshing EXCEPT ![r].pc = "done",
                                                     ![r].newToken = t]
            ELSE /\ refreshing' = [refreshing EXCEPT ![r].pc = "done",
                                                     ![r].err = "failed"]
                 /\ UNCHANGED <<sessions, renewed>>
    /\ UNCHANGED <<store, rest, seen, paging>>
    /\ UNCHANGED wsVars

\* the handler answers and returns
RefreshReturn(r) ==
    /\ refreshing[r].pc = "done"
    /\ refreshing' = [refreshing EXCEPT ![r] = NoRefresh]
    /\ UNCHANGED <<sessions, issuedTokens, renewed>>
    /\ UNCHANGED <<store, rest, seen, paging>>
    /\ UNCHANGED wsVars

(* ---------------------------- specification ---------------------------- *)
HubStep == HubSelect \/ HubLock \/ HubLockAcquire \/ HubBody
           \/ BroadcastRLock(Hub) \/ BroadcastNext(Hub) \/ SendMessage(Hub)

ReadStep(c) == SendMessage(c) \/ SaveMessage(c) \/ IsUserConnected(c)
               \/ SendToUser(c) \/ BroadcastRLock(c) \/ BroadcastNext(c)

Next ==
    \/ \E c \in Conn : Connect(c)
    \/ HubSelect
    \/ HubLock
    \/ HubLockAcquire
    \/ HubBody
    \/ \E p \in Proc : SendMessage(p)
    \/ \E p \in Proc : BroadcastRLock(p)
    \/ \E p \in Proc : BroadcastNext(p)
    \/ \E c \in Conn : IsUserConnected(c)
    \/ \E c \in Conn : SendToUser(c)
    \/ \E c \in Conn : ReadMessage(c)
    \/ \E c \in Conn : ReadFail(c)
    \/ \E c \in Conn : SaveMessage(c)
    \/ \E c \in Conn : WriteMessages(c)
    \/ \E c \in Conn : PingFail(c)

Spec == Init /\ [][Next]_vars

\* what Go's scheduler and the transport guarantee: a goroutine that can take
\* its next step takes it, and a read on a closed connection fails. Peers
\* connecting and sending frames, and transports failing, are not forced.
Fairness ==
    /\ WF_vars(HubStep)
    /\ \A c \in Conn : /\ WF_vars(ReadStep(c))
                       /\ WF_vars(WriteMessages(c))
                       /\ WF_vars(ReadFail(c) /\ connCloses[c] > 0)

FairSpec == Spec /\ Fairness

\* the store, written by the router goroutines, and the history requests
\* read from it; the table outlives the process, so requests find any rows
StoreNext ==
    \/ \E pr \in Pairs, id \in RowIds, t \in Times :
         RepositorySaveMessage(pr[1], pr[2], id, t)
    \/ \E u \in Users, conv \in ConvInputs, before \in Cursors, limit \in Limits :
         GetMessages(u, conv, before, limit)
    \/ MarkMessagesAsRead
    \/ \E u \in Users : GetConversations(u)
    \/ SendJSON

StoreSpec == Init /\ [][StoreNext]_vars

\* the sessions and the calls of /auth/login and /auth/refresh
AuthNext ==
    \/ \E u \in Users : Login(u)
    \/ \E u \in Users : Logout(u)
    \/ \E s \in sessions : Expire(s)
    \/ \E r \in Callers, t \in Tokens : RefreshFind(r, t)
    \/ \E r \in Callers : RefreshDelete(r)
    \/ \E r \in Callers : RefreshCreate(r)
    \/ \E r \in Callers : RefreshReturn(r)

AuthSpec == Init /\ [][AuthNext]_vars

(* ------------------------- reading the histories ----------------------- *)
IsAck(e, st, sid) ==
    e.type = "message_ack" /\ e.status = st /\ e.server_message_id = sid
IsForward(e, sid) == e.type = "direct_message" /\ e.server_message_id = sid
IsStoreError(e) == e.type = "error" /\ e.code = 1009

Positions(c) == 1..Len(log[c])
AckedAt(c, st, sid) == {i \in Positions(c) : IsAck(log[c][i], st, sid)}
Forwarded(sid) == \E t \in Conn : \E i \in Positions(t) : IsForward(log[t][i], sid)
RowsOf(sid) == {r \in store : r.id = sid}

(* ------------------------------- C1 ------------------------------------ *)
\* C1: a valid direct_message whose recipient has a registered connection
\* yields, after the two acknowledgements, a forwarded direct_message on the
\* recipient's connection, carrying the conversation id of the pair as the
\* recipient sending to the sender would derive it.
C1_OnlineRecipientGetsForward ==
    \A c \in Conn, r \in Users :
        (/\ pc[c] = "dm_is_connected"
         /\ cur[c].rcptID = r
         /\ userClients[r] # NoClient)
        ~> (\E t \in Conn :
              /\ UserOf(t) = r
              /\ \E i \in Positions(t) :
                   /\ log[t][i].type = "direct_message"
                   /\ log[t][i].user_id = UserOf(c)
                   /\ log[t][i].conversation_id = ConversationID(r, UserOf(c)))

(* ------------------------------- C2 ------------------------------------ *)
\* C2: when handleDirectMessage ends because the recipient has no registered
\* connection, the sender's connection holds the "sent" and then the
\* "delivered" acknowledgement of the message, no connection holds a
\* forwarded copy, and the store holds exactly one row for it, with
\* delivered = false.
OfflineOutcome(c, sid) ==
    /\ \E i \in AckedAt(c, "sent", sid) : \E j \in AckedAt(c, "delivered", sid) : i < j
    /\ ~Forwarded(sid)
    /\ Cardinality(RowsOf(sid)) = 1
    /\ \A r \in RowsOf(sid) : r.delivered = FALSE

C2_OfflineRecipient ==
    [][\A c \in Conn, sid \in MsgIds :
         (pc[c] = "dm_is_connected" /\ cur[c].sid = sid /\ pc'[c] = "read")
         => OfflineOutcome(c, sid)']_vars

C2_Witness ==
    \E c \in Conn, sid \in MsgIds :
        /\ pc[c] = "read"
        /\ AckedAt(c, "delivered", sid) # {}
        /\ \E r \in RowsOf(sid) : userClients[r.recipient_id] = NoClient

(* ------------------------------- C3 ------------------------------------ *)
\* C3: the steps of a send happen in the order sent-ack, persisted,
\* delivered-ack, forwarded: a row or a store error exists only after the
\* "sent" acknowledgement, a "delivered" acknowledgement only after the row and
\* after the "sent" one, and a forwarded copy only after the row and the
\* "delivered" acknowledgement.
C3_SendOrder ==
    /\ \A c \in Conn :
         /\ pc[c] = "dm_save" => AckedAt(c, "sent", cur[c].sid) # {}
         /\ \A i \in Positions(c) :
              IsStoreError(log[c][i]) => i > 1 /\ log[c][i - 1].status = "sent"
    /\ \A sid \in MsgIds :
         /\ RowsOf(sid) # {} => \E c \in Conn : AckedAt(c, "sent", sid) # {}
         /\ \A c \in Conn : \A j \in AckedAt(c, "delivered", sid) :
              /\ RowsOf(sid) # {}
              /\ \E i \in AckedAt(c, "sent", sid) : i < j
         /\ Forwarded(sid) =>
              /\ RowsOf(sid) # {}
              /\ \E c \in Conn : AckedAt(c, "delivered", sid) # {}

C3_Witness ==
    \E c \in Conn, sid \in MsgIds :
        AckedAt(c, "delivered", sid) # {} /\ RowsOf(sid) # {}

(* ------------------------------- C4 ------------------------------------ *)
\* C4: when the store is unavailable or the insert fails, the sender gets an
\* error 1009 right after the "sent" acknowledgement of that message, and the
\* message, which has no row, gets no "delivered" acknowledgement and no
\* forwarded copy on any connection.
C4_AppendFailure ==
    /\ \A c \in Conn : \A i \in Positions(c) :
         IsStoreError(log[c][i]) =>
           /\ i > 1
           /\ log[c][i - 1].type = "message_ack"
           /\ log[c][i - 1].status = "sent"
           /\ RowsOf(log[c][i - 1].server_message_id) = {}
    /\ \A sid \in MsgIds :
         RowsOf(sid) = {} =>
           /\ \A c \in Conn : AckedAt(c, "delivered", sid) = {}
           /\ ~Forwarded(sid)
    /\ \A c \in Conn :
         pc[c] = "send_error" /\ cur[c].env.code = 1009 =>
           /\ cur[c].target = c
           /\ AckedAt(c, "sent", log[c][Len(log[c])].server_message_id) # {}

C4_Witness ==
    \E c \in Conn : \E i \in Positions(c) :
        IsStoreError(log[c][i]) /\ repoAvailable

(* ------------------------------- C5 ------------------------------------ *)
\* C5: with h1 registered, h2 of the same identity handed to Add and h1
\* handed to Remove, h2 ends up the registered handle of the identity:
\* removing the stale h1 does not evict it.
C5_StaleRemoveKeepsSecond ==
    \A h1 \in Conn, h2 \in Conn :
        (h1 # h2 /\ UserOf(h1) = UserOf(h2)) =>
          ((wsPc[h1] = "started" /\ pc[h1] = "unregister" /\ wsPc[h2] = "register")
           ~> (IsConnected(UserOf(h2)) /\ userClients[UserOf(h2)] = h2))

(* ------------------------------- C6 ------------------------------------ *)
\* C6: a second connection registered for an identity replaces the first:
\* the registry then holds one entry for the identity, the second handle,
\* and the connected count counts the identity once.
C6_SecondReplacesFirst ==
    \A h1 \in Conn, h2 \in Conn :
        (h1 # h2 /\ UserOf(h1) = UserOf(h2)) =>
          ((wsPc[h1] = "started" /\ wsPc[h2] = "register")
           ~> (/\ userClients[UserOf(h2)] = h2
               /\ GetConnectedUserCount = Cardinality({UserOf(c) : c \in clients})))

C8_EnqueueNeverBlocks ==
    \A p \in Proc :
        (/\ pc[p] \in SendSites
         /\ ~sendClosed[cur[p].target]
         /\ writePc[cur[p].target] = "done"
         /\ ~crashed)
        => ENABLED SendMessage(p)

(* ------------------------------- C9 ------------------------------------ *)
\* C9: the registry never deadlocks: whenever Hub.Run is inside
\* registerClient or unregisterClient it can take its next step, or it is
\* waiting for readers that hold the lock.
C9_RegistryNeverDeadlocks ==
    (pc[Hub] # "select" /\ ~crashed) => (ENABLED HubStep \/ muReaders # {})

(* ------------------------------- C10 ----------------------------------- *)
\* C10: once a pump of a connection has ended, the connection gets exactly
\* one unregisterClient call and exactly one conn.Close(): never more than
\* one of each, and eventually one of each.
C10_OneRemoveOneClose ==
    /\ [](\A c \in Conn : removeCalls[c] <= 1 /\ connCloses[c] <= 1)
    /\ \A c \in Conn :
         (pc[c] = "unregister" \/ writePc[c] = "done")
         ~> (removeCalls[c] = 1 /\ connCloses[c] = 1)

(* --------------------------- reading the store ------------------------- *)
\* the rows of the conversation a request names
RowsOfConversation(conv) ==
    ConversationRows(store, SplitTable[conv].first, SplitTable[conv].second)
CreatedAt(id) == (CHOOSE r \in store : r.id = id).created_at
\* the messages of a page that were sent to the user who reads it
SentTo(u, page) == {i \in 1..Len(page) : page[i].sender_id # u}
QueryStep == rest.pc = "idle" /\ rest'.pc = "mark"
\* no two rows were created at the same instant
DistinctTimes == \A r1, r2 \in store : r1 # r2 => r1.created_at # r2.created_at
AnswerStep == rest.pc = "mark" /\ rest'.pc = "answer"

(* ------------------------------- C11 ----------------------------------- *)
\* C11: a client that fetches the first page of a conversation and then
\* follows nextCursor until hasMore is false, while no row is added, has been
\* given every message of the conversation exactly once, newest first (also
\* when all creation times differ).
C11_PagingExhaustive ==
    (paging.chain /\ ~paging.more /\ DistinctTimes)
    => /\ \A r \in RowsOfConversation(paging.conv) :
            Cardinality({i \in 1..Len(paging.acc) : paging.acc[i] = r.id}) = 1
       /\ \A i \in 1..Len(paging.acc) :
            \E r \in RowsOfConversation(paging.conv) : r.id = paging.acc[i]
       /\ \A i, j \in 1..Len(paging.acc) :
            i < j => CreatedAt(paging.acc[i]) >= CreatedAt(paging.acc[j])

(* ------------------------------- C12 ----------------------------------- *)
\* C12: a fetch without cursor and with limit k returns min(k, n) messages
\* of the conversation's n, all different, newest first, none of the
\* messages left out being newer than a returned one, and hasMore is true
\* exactly when n > k.
C12_FirstPage ==
    [][(QueryStep /\ rest'.before = NoCursor) =>
         LET all == RowsOfConversation(rest'.conv)
             page == rest'.messages
             k == rest'.limit IN
         /\ Len(page) = Min(k, Cardinality(all))
         /\ \A i \in 1..Len(page) : \E r \in all : Message(r) = page[i]
         /\ \A i, j \in 1..Len(page) :
              i < j => /\ page[i].id # page[j].id
                       /\ page[i].timestamp >= page[j].timestamp
         /\ \A r \in all :
              (\A i \in 1..Len(page) : page[i].id # r.id)
              => \A i \in 1..Len(page) : page[i].timestamp >= r.created_at
         /\ rest'.hasMore <=> Cardinality(all) > k]_vars

C12_Witness ==
    /\ rest.pc = "mark"
    /\ rest.before = NoCursor
    /\ rest.hasMore
    /\ Len(rest.messages) = rest.limit
    /\ Cardinality(RowsOfConversation(rest.conv)) > rest.limit

(* ------------------------------- C13 ----------------------------------- *)
\* C13: MarkMessagesAsRead applied twice with the same arguments leaves the
\* table, and returns the error, that applying it once does.
C13_MarkReadIdempotent ==
    \A conv \in ConvInputs, u \in Users, last \in RowIds :
        MarkRead(MarkRead(store, conv, u, last).rows, conv, u, last)
          = MarkRead(store, conv, u, last)

C13_Witness ==
    /\ rest.pc = "answer"
    /\ rest.resp.code = 200
    /\ ~rest.markErr
    /\ \E r \in store : r.read /\ r.recipient_id = rest.user
    /\ \E conv \in ConvInputs, u \in Users : MarkRead(store, conv, u, 1).rows # store

(* ------------------------------- C14 ----------------------------------- *)
\* C14: a page shows the rows with the flags they have when it is read, so
\* that an unread message sent to the reader appears with read = false; and
\* when the fetch's MarkMessagesAsRead did not fail, the answer still shows
\* it unread while the table then holds it with read = true.
C14_FetchMarksRead ==
    [][/\ QueryStep =>
            \A i \in 1..Len(rest'.messages) :
                \E r \in store : Message(r) = rest'.messages[i]
       /\ (AnswerStep /\ ~rest'.markErr) =>
            \A i \in SentTo(rest.user, rest.messages) :
                ~rest.messages[i].read =>
                  /\ rest'.resp.code = 200
                  /\ rest'.resp.messages[i] = rest.messages[i]
                  /\ \E r \in store' : r.id = rest.messages[i].id /\ r.read]_vars

C14_Witness ==
    /\ rest.pc = "answer"
    /\ rest.resp.code = 200
    /\ ~rest.markErr
    /\ \E i \in SentTo(rest.user, rest.resp.messages) :
         /\ ~rest.resp.messages[i].read
         /\ \E r \in store : r.id = rest.resp.messages[i].id /\ r.read

(* ------------------------------- C15 ----------------------------------- *)
\* C15: the conversation id handleDirectMessage computes for a sender and a
\* recipient, however the recipient is spelled, is the id the recipient
\* writing to the sender gets, and the id GetOrCreateConversation gives for
\* the pair in either order.
C15_ConversationIdSymmetric ==
    \A c \in Conn :
        (cur[c].sid # 0 /\ cur[c].rcptID # "") =>
          /\ ConversationBytes(cur[c].conv)
               = ConversationBytes(ConversationID(cur[c].rcptID, UserOf(c)))
          /\ ConversationBytes(cur[c].conv)
               = GetOrCreateConversation(UserOf(c), cur[c].rcptID)
          /\ GetOrCreateConversation(UserOf(c), cur[c].rcptID)
               = GetOrCreateConversation(cur[c].rcptID, UserOf(c))

(* ------------------------------- C16 ----------------------------------- *)
\* C16: when handleDirectMessage has reached its forwarding step for a
\* recipient that has a registered connection, and whenever a forwarded copy
\* has been enqueued, the message's row has delivered = true.
C16_DeliveredBeforePush ==
    /\ \A c \in Conn :
         (/\ pc[c] \in {"dm_is_connected", "stu_rlock", "stu_send"}
          /\ cur[c].sid # 0
          /\ IsConnected(cur[c].rcptID))
         => \A r \in RowsOf(cur[c].sid) : r.delivered
    /\ \A sid \in MsgIds : Forwarded(sid) => \A r \in RowsOf(sid) : r.delivered

(* ------------------------------- C17 ----------------------------------- *)
\* C17: a row has read = true only if a page answered to its recipient
\* contained it (also when all creation times differ).
C17_ReadOnlyIfSeen ==
    DistinctTimes => \A r \in store : r.read => r.id \in seen

(* ------------------------------- C18 ----------------------------------- *)
\* C18: the MarkMessagesAsRead of a fetch, called with the newest message of
\* the page as threshold, leaves unread the messages to the reader that are
\* newer than the threshold, and does not touch rows that are not sent to
\* the reader by the other participant.
C18_MarkReadUpToThreshold ==
    [][(AnswerStep /\ Len(rest.messages) > 0) =>
         \A r \in store :
            /\ (r.recipient_id = rest.user /\ ~r.read
                /\ r.created_at > rest.messages[1].timestamp) => r \in store'
            /\ (r.recipient_id # rest.user
                \/ r.sender_id \notin {SplitTable[rest.conv].first,
                                       SplitTable[rest.conv].second}) => r \in store']_vars

(* ------------------------------- C19 ----------------------------------- *)
\* C19: whether or not MarkMessagesAsRead fails, the fetch answers 200 with
\* the page, hasMore and nextCursor the query gave.
C19_MarkReadFailureSwallowed ==
    [][AnswerStep =>
         /\ rest'.resp.code = 200
         /\ rest'.resp.messages = rest.messages
         /\ rest'.resp.has_more = rest.hasMore
         /\ rest'.resp.next_cursor = rest.nextCursor]_vars

C19_Witness ==
    /\ rest.pc = "answer"
    /\ rest.markErr
    /\ rest.resp.code = 200
    /\ Len(rest.resp.messages) > 0
    /\ \E r \in store : r.id = rest.resp.messages[1].id /\ ~r.read

(* ------------------------------- C20 ----------------------------------- *)
\* C20: a fetch whose cursor is the id of a message of the conversation
\* returns only messages created before that message, and returns the
\* newest min(limit, n) of the n messages created before it (also when all
\* creation times differ).
C20_CursorStrictlyOlder ==
    [][(QueryStep /\ DistinctTimes /\ \E c \in RowsOfConversation(rest'.conv) : c.id = rest'.before) =>
         LET c == CHOOSE c \in RowsOfConversation(rest'.conv) : c.id = rest'.before
             older == {r \in RowsOfConversation(rest'.conv) : r.created_at < c.created_at}
             page == rest'.messages IN
         /\ \A i \in 1..Len(page) : page[i].timestamp < c.created_at
         /\ Len(page) = Min(rest'.limit, Cardinality(older))]_vars

(* ------------------------------- C21 ----------------------------------- *)
\* C21: a fetch returns at most limit messages; when hasMore is true its
\* nextCursor is the id of the last (oldest) message of the returned page,
\* and when hasMore is false its nextCursor is empty.
C21_NextCursorIsLastReturned ==
    [][QueryStep =>
         LET page == rest'.messages IN
         /\ Len(page) <= rest'.limit
         /\ rest'.hasMore => /\ Len(page) > 0
                             /\ rest'.nextCursor = page[Len(page)].id
         /\ ~rest'.hasMore => rest'.nextCursor = NoCursor]_vars

(* ------------------------------- C22 ----------------------------------- *)
\* C22: splitConversationID returns an error for every string whose length
\* is not 73 and for every string whose 37th byte is no hyphen: a request
\* gets past it only with a conversation id of 73 bytes whose 37th byte is a
\* hyphen.
C22_SplitRejectsMalformed ==
    [][QueryStep =>
         /\ Len(ConversationBytes(rest'.conv)) = 2 * UUIDLen + 1
         /\ ConversationBytes(rest'.conv)[UUIDLen + 1] = Hyphen]_vars

(* ------------------------------- C23 ----------------------------------- *)
\* C23: a valid read_receipt from a participant of a conversation between two
\* identities is handed to SendToUser for the other participant of that
\* conversation, and a read_receipt is enqueued only on a connection of that
\* other participant.
C23_ReceiptToOtherParticipant ==
    /\ \A c \in Conn :
         LET conv == cur[c].env.conversation_id IN
         (/\ pc[c] \in {"stu_rlock", "stu_send"}
          /\ cur[c].env.type = "read_receipt"
          /\ Parse(conv[1]) # Parse(conv[2])
          /\ UserOf(c) \in {Parse(conv[1]), Parse(conv[2])})
         => cur[c].user \in ({Parse(conv[1]), Parse(conv[2])} \ {UserOf(c)})
    /\ \A t \in Conn : \A i \in Positions(t) :
         LET e == log[t][i] IN
         e.type = "read_receipt" =>
           UserOf(t) \in ({Parse(e.conversation_id[1]), Parse(e.conversation_id[2])}
                          \ {e.user_id})

IsFormatError(e) ==
    /\ e.type = "error"
    /\ \/ e.code = 1000 /\ e.message = "Invalid message format" /\ e.status = "unknown"
       \/ e.code = 1001 /\ e.message = "Invalid message type"

\* such a frame is routed to one sendError on the connection it came from
BadFrameAnswered ==
    \A c \in Conn : \A f \in Frames :
        f.type \in {"malformed", "group_message"} =>
          /\ RouteMessage(c, f, 1, 0).pc = "send_error"
          /\ IsFormatError(RouteMessage(c, f, 1, 0).ctx.env)
          /\ RouteMessage(c, f, 1, 0).ctx.target = c

\* C26: a frame that cannot be decoded and an envelope of unknown type are
\* answered by an error envelope for the connection they came from; the
\* connection's queue is open when the error is sent, and sending it puts
\* exactly that one envelope on that connection and nothing on another,
\* leaves the registry, the store and the connection as they are, and takes
\* the readPump back to reading the next frame.
C26_BadFrameGetsOneError ==
    [][\A c \in Conn :
         /\ BadFrameAnswered
         /\ (pc[c] = "send_error" /\ IsFormatError(cur[c].env)) =>
              /\ cur[c].target = c
              /\ ~sendClosed[c]
              /\ pc'[c] \in {"send_error", "read"}
              /\ pc'[c] = "read" =>
                   /\ log'[c] = Append(log[c], cur[c].env)
                   /\ \A t \in Conn \ {c} : log'[t] = log[t]
                   /\ clients' = clients
                   /\ userClients' = userClients
                   /\ store' = store
                   /\ sendClosed' = sendClosed
                   /\ connCloses'[c] = connCloses[c]
                   /\ ~crashed']_vars

C26_Witness ==
    \E c \in Conn :
        /\ c \in clients
        /\ userClients[UserOf(c)] = c
        /\ connCloses[c] = 0
        /\ pc[c] = "read"
        /\ frames[c] = 2
        /\ Len(log[c]) = 2
        /\ IsFormatError(log[c][1])
        /\ log[c][1].code # log[c][2].code

(* ------------------------------- C27 ----------------------------------- *)
\* the error envelopes handleDirectMessage rejects an envelope with
IsRejection(e) ==
    /\ e.type = "error"
    /\ e.status = "direct_message"
    /\ \/ /\ e.code = 1000
          /\ e.message \in {"Missing recipient_id", "Missing message content",
                            "Missing client message_id"}
       \/ e.code = 1002 /\ e.message = "Invalid recipient ID"

\* the direct_message frames that lack one of the three fields or whose
\* recipient_id is no identity
Rejected ==
    {Frame("direct_message", "A", miss, "") :
       miss \in {"recipient_id", "content", "message_id"}}
    \cup {f \in Frames : f.type = "direct_message" /\ Parse(f.rcpt) = ""}

\* every such frame is routed to one sendError on the connection it came from
RejectedAnswered ==
    \A c \in Conn : \A f \in Rejected :
        /\ RouteMessage(c, f, 1, 0).pc = "send_error"
        /\ IsRejection(RouteMessage(c, f, 1, 0).ctx.env)
        /\ RouteMessage(c, f, 1, 0).ctx.target = c

\* C27: a direct_message that lacks recipient_id, content or message_id, or
\* whose recipient_id does not parse, is answered by an error envelope for
\* its sender only: from the frame being read to the readPump reading again,
\* no server id is drawn, the store does not change and the only envelope
\* enqueued is that one error, on the sender's connection.
C27_InvalidDirectMessageRejected ==
    [][\A c \in Conn :
         /\ RejectedAnswered
         /\ (pc[c] = "read" /\ pc'[c] = "send_error" /\ IsRejection(cur'[c].env)) =>
              /\ log' = log
              /\ store' = store
              /\ usedIds' = usedIds
         /\ (pc[c] = "send_error" /\ IsRejection(cur[c].env)) =>
              /\ cur[c].target = c
              /\ ~sendClosed[c]
              /\ pc'[c] \in {"send_error", "read"}
              /\ pc'[c] = "read" =>
                   /\ log'[c] = Append(log[c], cur[c].env)
                   /\ \A t \in Conn \ {c} : log'[t] = log[t]
                   /\ store' = store
                   /\ usedIds' = usedIds
                   /\ ~crashed']_vars

C27_Witness ==
    \E c \in Conn :
        /\ pc[c] = "read"
        /\ frames[c] = 2
        /\ Len(log[c]) = 2
        /\ IsRejection(log[c][1]) /\ log[c][1].code = 1000
        /\ IsRejection(log[c][2]) /\ log[c][2].code = 1002
        /\ store = {}
        /\ usedIds = {}
        /\ \A t \in Conn \ {c} : log[t] = << >>

(* ------------------------------- C28 ----------------------------------- *)
\* C28: once the transport of an accepted connection has failed, in the
\* readPump (read error, oversized frame, read deadline) or in the writePump
\* (write error, ping not written), the connection is eventually out of the
\* registry with its queue closed.
C28_FailedConnectionRemoved ==
    \A c \in Conn :
        (wsPc[c] = "started" /\ (pc[c] = "unregister" \/ writePc[c] = "done"))
        ~> (/\ c \notin clients
            /\ userClients[UserOf(c)] # c
            /\ sendClosed[c])

(* ------------------------------- C29 ----------------------------------- *)
\* the acknowledgements on c of its k-th frame, and the server ids in them
AcksOf(c, k) == {i \in Positions(c) : /\ log[c][i].type = "message_ack"
                                      /\ log[c][i].client_message_id = k}
SidsOf(c, k) == {log[c][i].server_message_id : i \in AcksOf(c, k)}

\* the handling of c's first frame, if it was acknowledged "sent", has come
\* to its "delivered" acknowledgement or to its store error
FirstHandled(c) ==
    \A i \in AcksOf(c, 1) :
        \/ \E j \in AcksOf(c, 1) : log[c][j].status = "delivered"
        \/ /\ i < Len(log[c])
           /\ IsStoreError(log[c][i + 1])

\* the two direct messages of c were saved for the identity of t, and both
\* were acknowledged "delivered"
BothDeliveredTo(c, t) ==
    /\ \E i \in AcksOf(c, 1) : log[c][i].status = "delivered"
    /\ \E j \in AcksOf(c, 2) : log[c][j].status = "delivered"
    /\ \A r \in store :
         r.id \in SidsOf(c, 1) \cup SidsOf(c, 2) => r.recipient_id = UserOf(t)

C30_NoSendOnClosedNoDoubleClose ==
    /\ ~crashed
    /\ \A p \in Proc : pc[p] \in SendSites => ~sendClosed[cur[p].target]
    /\ (/\ pc[Hub] = "body"
        /\ cur[Hub].op = "unregister"
        /\ cur[Hub].target \in clients) => ~sendClosed[cur[Hub].target]

C30_Witness ==
    \E c \in Conn :
        /\ c \in clients
        /\ pc[Hub] = "bcast_rlock"
        /\ writePc[c] = "done"
        /\ pc[c] \in SendSites
        /\ cur[c].target = c
        /\ Len(log[c]) >= 2
        /\ ~sendClosed[c]
        /\ ~crashed

(* ------------------------------- C31 ----------------------------------- *)
\* the goroutines that hold Hub.mu, for reading or for writing
LockHolders == muReaders \cup (IF muWriter = "held" THEN {Hub} ELSE {})

\* C31: no goroutine waits while it holds Hub.mu: every holder of the lock,
\* Hub.Run inside registerClient or unregisterClient as well as a goroutine
\* inside SendToUser or the broadcast, can take its next step, so the lock is
\* given back and no register or unregister waits for it forever.
C31_NoBlockingUnderLock ==
    ~crashed =>
      \A p \in LockHolders :
          IF p = Hub THEN ENABLED HubStep ELSE ENABLED ReadStep(p)

(* ------------------------------- C32 ----------------------------------- *)
\* the goroutines that are reading Hub.clients or Hub.userClients: inside
\* SendToUser after its lookup, or inside the broadcast's range
MapReaders == {p \in Proc : pc[p] \in {"stu_send", "bcast_loop", "bcast_send"}}

\* C32: the registry maps are modified only by Hub.Run, only while it holds
\* the write lock and no goroutine holds a read lock, and every goroutine
\* that reads the maps holds a read lock while no writer holds the lock;
\* several readers may hold it together.
C32_MapAccessExclusive ==
    /\ [](/\ pc[Hub] = "body" => (muWriter = "held" /\ muReaders = {})
          /\ MapReaders \subseteq muReaders
          /\ muReaders # {} => muWriter # "held")
    /\ [][(clients' # clients \/ userClients' # userClients)
          => (/\ pc[Hub] = "body"
              /\ muWriter = "held"
              /\ muReaders = {}
              /\ MapReaders = {})]_vars

\* a registration waits for the lock while a broadcast, begun before the
\* writer asked for it, is ranging over the map
C32_Witness ==
    \E c \in Conn :
        /\ pc[Hub] = "locking"
        /\ muWriter = "waiting"
        /\ c \in muReaders
        /\ pc[c] = "bcast_loop"

(* ------------------------------- C33 ----------------------------------- *)
\* t's queue was given a presence_update of user u with status st
PresenceSeen(t, u, st) ==
    \E i \in Positions(t) : /\ log[t][i].type = "presence_update"
                            /\ log[t][i].user_id = u
                            /\ log[t][i].status = st

\* C33: registering a connection puts presence_update "online" of its user
\* on every registered connection of another user, unregistering a
\* registered connection takes it out of the registry and puts "offline" on
\* those that remain, and no connection is ever given a presence_update of
\* its own user.
C33_RegistryDrivesPresence ==
    /\ [](\A t \in Conn : \A i \in Positions(t) :
            log[t][i].type = "presence_update" => log[t][i].user_id # UserOf(t))
    /\ \A h \in Conn : \A t \in {x \in Conn : UserOf(x) # UserOf(h)} :
         (t \in clients /\ wsPc[h] = "register")
         ~> (h \in clients /\ PresenceSeen(t, UserOf(h), "online"))
    /\ \A h \in Conn :
         (h \in clients /\ pc[h] = "unregister")
         ~> (/\ h \notin clients
             /\ \A t \in clients :
                  UserOf(t) # UserOf(h) => PresenceSeen(t, UserOf(h), "offline"))

(* ------------------------------- C34 ----------------------------------- *)
\* Hub.Run is inside unregisterClient's broadcast for the user of h
RemoveBroadcasting(h) ==
    /\ pc[Hub] \in {"bcast_rlock", "bcast_loop", "bcast_send"}
    /\ cur[Hub].op = "unregister"
    /\ cur[Hub].user = UserOf(h)

\* C34: unregisterClient of a registered connection closes the connection's
\* queue, and closes it last: the queue is closed only when the connection
\* is out of the registry and the "offline" broadcast of that call is over.
C34_CloseIsTerminal ==
    /\ [](\A h \in Conn :
            sendClosed[h] => (/\ h \notin clients
                              /\ userClients[UserOf(h)] # h
                              /\ ~RemoveBroadcasting(h)))
    /\ \A h \in Conn :
         (h \in clients /\ pc[h] = "unregister") ~> sendClosed[h]

(* ------------------------------- C35 ----------------------------------- *)
\* the envelope a step has put on c's queue is an acknowledgement
AckEnqueued(c) ==
    /\ Len(log'[c]) = Len(log[c]) + 1
    /\ log'[c][Len(log'[c])].type = "message_ack"

\* C35: every acknowledgement is enqueued while its frame is being handled
\* and carries that frame's message_id and the identifier uuid.New() gave
\* the message; the two acknowledgements of a frame carry the same server
\* identifier; that identifier, not the client's message_id, is the id of
\* the row, and it is the message_id of the copy built for the recipient.
C35_AcksCarryBothIds ==
    /\ [][\A c \in Conn :
            AckEnqueued(c) =>
              /\ log'[c][Len(log'[c])].client_message_id = frames[c]
              /\ log'[c][Len(log'[c])].server_message_id = cur[c].sid
              /\ cur[c].cid = frames[c]]_vars
    /\ [](/\ \A c \in Conn : \A k \in 1..MaxFrames :
               /\ Cardinality(SidsOf(c, k)) <= 1
               /\ \A i \in AcksOf(c, k) :
                    log[c][i].status = "delivered" =>
                      \E r \in RowsOf(log[c][i].server_message_id) :
                          r.sender_id = UserOf(c)
          /\ \A r \in store :
               \E c \in Conn : /\ r.sender_id = UserOf(c)
                               /\ AckedAt(c, "sent", r.id) # {}
          /\ \A c \in Conn :
               (pc[c] \in {"dm_is_connected", "stu_rlock", "stu_send"}
                /\ cur[c].env.type = "direct_message") =>
                 /\ cur[c].env.server_message_id = cur[c].sid
                 /\ AckedAt(c, "delivered", cur[c].sid) # {}
                 /\ RowsOf(cur[c].sid) # {}
          /\ \A t \in Conn : \A i \in Positions(t) :
               log[t][i].type = "direct_message" =>
                 RowsOf(log[t][i].server_message_id) # {})

\* the second frame of a connection, message_id 2, was given the server
\* identifier 1, acknowledged twice and stored under 1
C35_Witness ==
    \E c \in Conn :
        /\ pc[c] = "dm_is_connected"
        /\ cur[c].cid = 2
        /\ cur[c].sid = 1
        /\ \E i \in AcksOf(c, 2) : \E j \in AcksOf(c, 2) :
             /\ i < j
             /\ log[c][i].status = "sent"
             /\ log[c][j].status = "delivered"
        /\ SidsOf(c, 2) = {1}
        /\ \E r \in store : r.id = 1 /\ r.sender_id = UserOf(c)
        /\ \A r \in store : r.id # 2

(* ------------------------------- C36 ----------------------------------- *)
\* the envelope a step has put on t's queue is a forwarded direct_message
ForwardEnqueued(t) ==
    /\ Len(log'[t]) = Len(log[t]) + 1
    /\ log'[t][Len(log'[t])].type = "direct_message"

\* the places on the queues that hold a forwarded copy of message sid
CopiesOf(sid) ==
    {<<t, i>> \in Conn \X (1..(2 * MaxFrames)) :
        i \in Positions(t) /\ IsForward(log[t][i], sid)}

\* C36: an acknowledgement is enqueued only by the readPump that handles the
\* message and only on that readPump's own connection; a message has at
\* most one forwarded copy; and a copy is enqueued only on the connection
\* that Hub.userClients holds for the recipient at that moment. This holds
\* also while connections of the recipient are being accepted or are
\* leaving.
C36_AcksToSenderOnePush ==
    /\ [][\A t \in Conn :
            /\ AckEnqueued(t) =>
                 /\ pc[t] \in {"dm_ack_sent", "dm_ack_delivered"}
                 /\ pc'[t] # pc[t]
                 /\ cur[t].target = t
            /\ ForwardEnqueued(t) =>
                 /\ t \in clients
                 /\ \E c \in Conn : /\ pc[c] = "stu_send"
                                    /\ pc'[c] # pc[c]
                                    /\ c \in muReaders
                                    /\ userClients[cur[c].rcptID] = t]_vars
    /\ [](\A sid \in MsgIds :
            /\ Cardinality({t \in Conn : AckedAt(t, "sent", sid) # {}
                                         \/ AckedAt(t, "delivered", sid) # {}}) <= 1
            /\ Cardinality(CopiesOf(sid)) <= 1)

\* a message to B has both acknowledgements on its sender's connection and
\* none elsewhere, while a connection of B is being accepted
C36_Witness ==
    \E c \in Conn, t \in Conn :
        /\ UserOf(t) # UserOf(c)
        /\ pc[c] = "dm_is_connected"
        /\ cur[c].rcptID = UserOf(t)
        /\ wsPc[t] = "register"
        /\ AckedAt(c, "sent", cur[c].sid) # {}
        /\ AckedAt(c, "delivered", cur[c].sid) # {}
        /\ log[t] = << >>

(* ------------------------------- C37 ----------------------------------- *)
\* C37: direct_messages only grows: whatever step is taken (an INSERT, a
\* history query, the UPDATE of MarkMessagesAsRead), every row is still there
\* afterwards with the same id, sender, recipient and created_at, a read flag
\* that was true is still true, and no two rows share an id.
C37_RowsAppendOnly ==
    /\ [][\A r \in store :
            \E r2 \in store' :
                /\ r2.id = r.id
                /\ r2.sender_id = r.sender_id
                /\ r2.recipient_id = r.recipient_id
                /\ r2.created_at = r.created_at
                /\ r.read => r2.read]_vars
    /\ [](\A r1 \in store, r2 \in store : r1.id = r2.id => r1 = r2)

\* two rows are stored, one of them marked read by a fetch that is being
\* answered, the other one unread
C37_Witness ==
    /\ rest.pc = "answer"
    /\ rest.resp.code = 200
    /\ rest.conv # NoConv
    /\ ~rest.markErr
    /\ Cardinality(store) = 2
    /\ \E r \in store : r.read
    /\ \E r \in store : ~r.read

(* ------------------------------- C38 ----------------------------------- *)
\* the rows u and o have exchanged
Exchanged(u, o) ==
    {r \in store : \/ r.sender_id = u /\ r.recipient_id = o
                   \/ r.sender_id = o /\ r.recipient_id = u}

\* the request being answered is a conversation list
ListAnswered == rest.pc = "answer" /\ rest.resp.code = 200 /\ rest.conv = NoConv
\* the step in which a conversation list is read from the table
ListStep == rest.pc = "idle" /\ rest'.pc = "answer" /\ rest'.resp.code = 200

\* C38: the conversation list read for a user has exactly one entry for
\* each user it has exchanged a row with and no other entry; the entry's
\* message is a row the two exchanged that no other row of theirs is newer
\* than, and its unread count is the number of rows the other user sent to
\* the user that have read = false; and right after a history fetch whose
\* page was not empty and whose marking did not fail, the user's list has
\* the unread count 0 for the other participant of that conversation.
C38_ListConversations ==
    /\ [][ListStep =>
            LET l == rest'.resp.conversations
                u == rest'.user IN
            /\ {l[i].user_id : i \in 1..Len(l)} = {o \in Users : Exchanged(u, o) # {}}
            /\ \A i, j \in 1..Len(l) : i # j => l[i].user_id # l[j].user_id
            /\ \A i \in 1..Len(l) :
                 /\ \E r \in Exchanged(u, l[i].user_id) :
                      /\ r.id = l[i].message_id
                      /\ r.created_at = l[i].timestamp
                      /\ \A r2 \in Exchanged(u, l[i].user_id) :
                           r2.created_at <= r.created_at
                 /\ l[i].unread_count =
                      Cardinality({r \in store : /\ r.sender_id = l[i].user_id
                                                 /\ r.recipient_id = u
                                                 /\ ~r.read})]_vars
    /\ [][(AnswerStep /\ ~rest'.markErr /\ Len(rest.messages) > 0) =>
            \A l \in RepositoryGetConversations(store', rest.user) :
                \A i \in 1..Len(l) :
                    l[i].user_id \in {SplitTable[rest.conv].first,
                                      SplitTable[rest.conv].second} \ {rest.user}
                    => l[i].unread_count = 0]_vars

\* B is answered a list of two conversations, one of them with an unread
\* message and one whose newest row B sent itself
C38_Witness ==
    /\ ListAnswered
    /\ Len(rest.resp.conversations) = 2
    /\ \E i \in 1..2 : rest.resp.conversations[i].unread_count = 1
    /\ \E i \in 1..2 : \E r \in store :
         /\ r.id = rest.resp.conversations[i].message_id
         /\ r.sender_id = rest.user

(* ------------------------------- C39 ----------------------------------- *)
\* a history request of a user was taken up, for a conversation id that
\* splits into two users
FetchStep == /\ rest.pc = "idle"
             /\ rest'.pc # "idle"
             /\ rest'.conv # NoConv
             /\ SplitTable[rest'.conv].err = ""

\* the two users of the conversation a request names
Participants(conv) == {SplitTable[conv].first, SplitTable[conv].second}

\* C39: a history request of a user that is neither of the two users of the
\* conversation id ends at once with ErrUnauthorized, without messages and
\* without a change of the table; and while a request of a participant is
\* served, the only rows that change are unread rows the other participant
\* sent to the requesting user, which become read.
C39_FetchFrame ==
    /\ [][(FetchStep /\ rest'.user \notin Participants(rest'.conv)) =>
            /\ rest'.pc = "answer"
            /\ rest'.err = ErrUnauthorized
            /\ rest'.resp.code # 200
            /\ rest'.resp.messages = << >>
            /\ rest'.messages = << >>
            /\ store' = store]_vars
    /\ [][(FetchStep /\ rest'.user \in Participants(rest'.conv)) =>
            /\ rest'.err # ErrUnauthorized
            /\ store' = store]_vars
    /\ [][AnswerStep =>
            /\ rest.user \in Participants(rest.conv)
            /\ Cardinality(store') = Cardinality(store)
            /\ \A r \in store :
                 \/ r \in store'
                 \/ /\ r.recipient_id = rest.user
                    /\ r.sender_id \in Participants(rest.conv)
                    /\ r.sender_id # rest.user
                    /\ ~r.read
                    /\ [r EXCEPT !.read = TRUE] \in store']_vars

\* C's request for the conversation of A and B was refused while the table
\* holds an unread row of that conversation
C39_Witness ==
    /\ rest.pc = "answer"
    /\ rest.err = ErrUnauthorized
    /\ rest.user = "C"
    /\ Participants(rest.conv) = {"A", "B"}
    /\ \E r \in store : /\ ~r.read
                        /\ r.sender_id \in {"A", "B"}
                        /\ r.recipient_id \in {"A", "B"}

(* ------------------------------- C40 ----------------------------------- *)
\* the tokens Refresh calls presenting old have returned
RenewalsOf(old) == {p[2] : p \in {q \in renewed : q[1] = old}}

\* C40: a refresh token is used once: at most one Refresh presenting it
\* succeeds, whatever the interleaving of the calls and whether or not the
\* DELETE of the old session fails, and once a Refresh presenting it has
\* succeeded no session holds it any more, so that presenting it again gives
\* ErrInvalidToken.
C40_RefreshTokenSingleUse ==
    \A old \in Tokens :
        /\ Cardinality(RenewalsOf(old)) <= 1
        /\ RenewalsOf(old) # {} => \A s \in sessions : s.refresh_token # old

====
